---------------------------- MODULE Spec2Model ----------------------------
(***************************************************************************)
(* A model of the multi-material DG kernel of quinoa/inciter: the          *)
(* trace-material cleanup, the vertex-based limiter and its conservative   *)
(* re-projection, the p-adaptive reset, the right-hand-side assembly and   *)
(* the Lax-Friedrichs Riemann flux.                                        *)
(*                                                                         *)
(* Real numbers.  tk::real values are modelled exactly, as quotients of    *)
(* polynomials in eps = 1e-14 with integer coefficients, together with the *)
(* IEEE-754 values NaN, +inf and -inf that a division by zero produces.    *)
(* A polynomial is the sequence of its coefficients, lowest degree first.  *)
(* Because every coefficient fits in 32 bits, the sign of a polynomial at  *)
(* eps = 1e-14 is the sign of its lowest-degree non-zero coefficient, so   *)
(* the order computed here is the order of the real numbers.  Rounding is  *)
(* not modelled: the arithmetic is exact.                                  *)
(***************************************************************************)
EXTENDS Integers, Sequences, FiniteSets, TLC

----------------------------------------------------------------------------
(* Polynomials in eps *)

Abs(x) == IF x < 0 THEN -x ELSE x

RECURSIVE GcdNat(_, _)
GcdNat(a, b) == IF b = 0 THEN a ELSE GcdNat(b, a % b)

Gcd(a, b) == GcdNat(Abs(a), Abs(b))

RECURSIVE PTrim(_)
PTrim(p) ==
  IF p = <<>> THEN <<>>
  ELSE IF p[Len(p)] = 0 THEN PTrim(SubSeq(p, 1, Len(p) - 1)) ELSE p

PCoef(p, i) == IF i <= Len(p) THEN p[i] ELSE 0

PAdd(p, q) ==
  LET n == IF Len(p) > Len(q) THEN Len(p) ELSE Len(q)
  IN  PTrim([i \in 1..n |-> PCoef(p, i) + PCoef(q, i)])

PNeg(p) == [i \in 1..Len(p) |-> -p[i]]

RECURSIVE PConv(_, _, _, _)
PConv(p, q, i, j) ==
  IF j > Len(p) THEN 0
  ELSE (IF i - j + 1 >= 1 /\ i - j + 1 <= Len(q) THEN p[j] * q[i - j + 1] ELSE 0)
       + PConv(p, q, i, j + 1)

PMul(p, q) ==
  IF p = <<>> \/ q = <<>> THEN <<>>
  ELSE [i \in 1..(Len(p) + Len(q) - 1) |-> PConv(p, q, i, 1)]

RECURSIVE PSign(_)
PSign(p) ==
  IF p = <<>> THEN 0
  ELSE IF p[1] > 0 THEN 1
  ELSE IF p[1] < 0 THEN -1
  ELSE PSign(Tail(p))

RECURSIVE PContent(_)
PContent(p) == IF p = <<>> THEN 0 ELSE Gcd(p[1], PContent(Tail(p)))

PDivInt(p, g) == [i \in 1..Len(p) |-> p[i] \div g]

----------------------------------------------------------------------------
(* tk::real: finite quotients n/d (d > 0) and the IEEE special values *)

NaN  == [k |-> "nan",  n |-> <<>>, d |-> <<1>>]
PInf == [k |-> "pinf", n |-> <<>>, d |-> <<1>>]
NInf == [k |-> "ninf", n |-> <<>>, d |-> <<1>>]

RECURSIVE Reduce(_, _)
Reduce(n, d) ==
  IF n = <<>> THEN [k |-> "fin", n |-> <<>>, d |-> <<1>>]
  ELSE IF n[1] = 0 /\ d[1] = 0 THEN Reduce(Tail(n), Tail(d))
  ELSE LET g == Gcd(PContent(n), PContent(d))
       IN  IF PSign(d) < 0
           THEN [k |-> "fin", n |-> PNeg(PDivInt(n, g)), d |-> PNeg(PDivInt(d, g))]
           ELSE [k |-> "fin", n |-> PDivInt(n, g), d |-> PDivInt(d, g)]

Fin(n, d) == Reduce(PTrim(n), PTrim(d))

\* the rational a/b and the multiple a*eps
Rat(a, b) == Fin(<<a>>, <<b>>)
Tiny(a)   == Fin(<<0, a>>, <<1>>)
Zero      == Rat(0, 1)
One       == Rat(1, 1)

IsFin(x) == x.k = "fin"
Rank(x) == CASE x.k = "pinf" -> 1 [] x.k = "ninf" -> -1 [] OTHER -> 0
Sign(x) ==
  CASE x.k = "fin"  -> PSign(x.n)
    [] x.k = "pinf" -> 1
    [] x.k = "ninf" -> -1
    [] OTHER        -> 0

NNeg(x) ==
  CASE x.k = "fin"  -> [x EXCEPT !.n = PNeg(x.n)]
    [] x.k = "pinf" -> NInf
    [] x.k = "ninf" -> PInf
    [] OTHER        -> NaN

NAdd(x, y) ==
  CASE x.k = "nan" \/ y.k = "nan" -> NaN
    [] IsFin(x) /\ IsFin(y) ->
         Fin(PAdd(PMul(x.n, y.d), PMul(y.n, x.d)), PMul(x.d, y.d))
    [] IsFin(x) -> y
    [] IsFin(y) -> x
    [] OTHER    -> IF x.k = y.k THEN x ELSE NaN

NSub(x, y) == NAdd(x, NNeg(y))

NMul(x, y) ==
  CASE x.k = "nan" \/ y.k = "nan" -> NaN
    [] IsFin(x) /\ IsFin(y) -> Fin(PMul(x.n, y.n), PMul(x.d, y.d))
    [] OTHER ->
         IF Sign(x) * Sign(y) > 0 THEN PInf
         ELSE IF Sign(x) * Sign(y) < 0 THEN NInf
         ELSE NaN

\* IEEE division; a zero divisor is taken as +0
NDiv(x, y) ==
  CASE x.k = "nan" \/ y.k = "nan" -> NaN
    [] IsFin(x) /\ IsFin(y) ->
         IF Sign(y) # 0 THEN Fin(PMul(x.n, y.d), PMul(x.d, y.n))
         ELSE IF Sign(x) > 0 THEN PInf
         ELSE IF Sign(x) < 0 THEN NInf
         ELSE NaN
    [] IsFin(x) -> Zero
    [] IsFin(y) -> IF Sign(x) * (IF Sign(y) < 0 THEN -1 ELSE 1) > 0
                   THEN PInf ELSE NInf
    [] OTHER    -> NaN

\* a/b < c/d for b, d > 0, by the Euclidean algorithm on the quotients, so
\* that no product of numerators and denominators is formed
RECURSIVE RatLt(_, _, _, _)
RatLt(a, b, c, d) ==
  IF (a \div b) # (c \div d) THEN (a \div b) < (c \div d)
  ELSE IF (c % d) = 0 THEN FALSE
  ELSE IF (a % b) = 0 THEN TRUE
  ELSE RatLt(d, c % d, b, a % b)

\* a quotient without an eps part
IsRat(x) == Len(x.n) <= 1 /\ Len(x.d) = 1

\* x < y; every comparison with NaN is false
NLt(x, y) ==
  CASE x.k = "nan" \/ y.k = "nan" -> FALSE
    [] IsFin(x) /\ IsFin(y) ->
         IF IsRat(x) /\ IsRat(y)
         THEN RatLt(PCoef(x.n, 1), x.d[1], PCoef(y.n, 1), y.d[1])
         ELSE Sign(NSub(x, y)) < 0
    [] OTHER -> Rank(x) < Rank(y)

NGt(x, y) == NLt(y, x)
NLe(x, y) == x.k # "nan" /\ y.k # "nan" /\ ~NLt(y, x)
NEq(x, y) == NLe(x, y) /\ NLe(y, x)

\* std::max(a,b) is (a < b) ? b : a and std::min(a,b) is (b < a) ? b : a
StdMax(a, b) == IF NLt(a, b) THEN b ELSE a
StdMin(a, b) == IF NLt(b, a) THEN b ELSE a

RECURSIVE SumSeq(_)
SumSeq(s) == IF s = <<>> THEN Zero ELSE NAdd(s[1], SumSeq(Tail(s)))

----------------------------------------------------------------------------
(* Configuration (the input deck) and the bounds of the model *)

\* number of materials of the PDE system and of mesh elements
NMat  == 2
NElem == 2

nmat  == NMat
nelem == NElem

\* scalar components of the conserved and of the primitive vector
ncomp == 3 * nmat + 3
nprim == nmat + 3

Mats  == 0..(nmat - 1)
Elems == 0..(nelem - 1)

----------------------------------------------------------------------------
(* Component index maps (MultiMat/MultiMatIndexing.hpp) *)

volfracIdx(n, k)   == k
densityIdx(n, k)   == n + k
momentumIdx(n, i)  == 2 * n + i
energyIdx(n, k)    == 2 * n + 3 + k
pressureIdx(n, k)  == k
velocityIdx(n, i)  == n + i

volfracDofIdx(n, k, ndof, idof)  == volfracIdx(n, k) * ndof + idof
densityDofIdx(n, k, ndof, idof)  == densityIdx(n, k) * ndof + idof
momentumDofIdx(n, i, ndof, idof) == momentumIdx(n, i) * ndof + idof
energyDofIdx(n, k, ndof, idof)   == energyIdx(n, k) * ndof + idof
pressureDofIdx(n, k, ndof, idof) == pressureIdx(n, k) * ndof + idof
velocityDofIdx(n, i, ndof, idof) == velocityIdx(n, i) * ndof + idof

\* true if the material exists in the cell
matExists(alphamat) == NGt(alphamat, Tiny(10000))

----------------------------------------------------------------------------
(* Equation of state of a material block (PDE/EoS/JWL.hpp).  The material  *)
(* constants are those of a fluid with gamma = 2, c_v = 1, p_stiff = 0.    *)
(* eos_totalenergy and eos_pressure evaluate exponentials; their values    *)
(* are inputs of the model (any finite value for finite arguments).        *)

m_gamma  == Rat(2, 1)
m_cv     == One
m_pstiff == Zero

pstiff(k) == m_pstiff

eos_density(pr, temp) ==
  NDiv(NAdd(pr, m_pstiff), NMul(NMul(NSub(m_gamma, One), m_cv), temp))

eos_temperature(arho, u, v, w, arhoE, alpha) ==
  NDiv(NSub(NSub(arhoE,
                 NMul(NMul(Rat(1, 2), arho),
                      NAdd(NAdd(NMul(u, u), NMul(v, v)), NMul(w, w)))),
            NMul(alpha, m_pstiff)),
       NMul(arho, m_cv))

\* value val for finite arguments, NaN otherwise
eos_totalenergy(rho, pr, val) == IF IsFin(rho) /\ IsFin(pr) THEN val ELSE NaN

\* partial pressure returned by eos_pressure: val, or a throw when an
\* argument or the value is not finite
eos_pressure(arho, arhoE, alpha, val) ==
  IF IsFin(arho) /\ IsFin(arhoE) /\ IsFin(alpha) /\ IsFin(val)
  THEN [thrown |-> FALSE, p |-> val]
  ELSE [thrown |-> TRUE, p |-> NaN]

----------------------------------------------------------------------------
(* State *)

VARIABLES
  \* the input deck and the build
  rdof, ndof,   \* reconstructed and solved dofs per component
  ndofel,       \* ndofel[e]: local number of dofs of element e
  intsharp,     \* interface sharpening switch of the material system
  limiter,      \* limiter type
  accuracy_test, shock_detection, \* switches of the discretisation
  prelax,       \* finite-rate pressure relaxation switch
  m_bc,         \* per boundary-condition type the configured side-set ids
  build,        \* "Debug" (Assert compiled in) or "Release"
  \* control
  pc,           \* position of the running operation
  e,            \* element counter of the running loop
  what,         \* message of the exception thrown, "" when none
  \* cleanTraceMultiMat
  U, P,         \* rows U(e,.) and P(e,.) of the element being visited
  U0, P0,       \* the same rows on entry to the loop body
  k,            \* material counter of the running inner loop
  kmax, almax,  \* majority material and its fraction
  p_target,     \* relaxation pressure
  tmax,         \* temperature of the majority material
  d_al, d_arE,  \* volume and energy moved to the majority
  neg_density,  \* the flag returned at the end
  ret,          \* value returned to cleanTraceMaterial
  negSeen,      \* history: some visited element was left with arho < 0
  \* solution fields of the limiter, the re-projection and the p-adaptation
  unk, prim,    \* unk[e], prim[e]: rows of the conserved and primitive fields
  unk0, prim0,  \* history: the fields on entry to the running operation
  phic, phip,       \* limiter coefficients of the P1 dofs
  phic_p2, phip_p2, \* limiter coefficients of the P2 dofs
  U_lim, P_lim,     \* VertexBasedMultiMat_P2: the limited copies
  shockmarker,      \* shockmarker[e]
  \* right-hand side
  R,            \* R[e][c*ndof+idof]: number of contributions accumulated
  riemannDeriv, \* riemannDeriv[k][e]: accumulated Riemann pressures and velocity
  rlog,         \* history: rlog[e], the contributions to row e in order
  ibc, iss, ifc, \* loop counters: boundary type, side set, face
  \* Riemann flux
  ustate,       \* u[0], u[1]: left and right state of the flux call
  fl,           \* the flux vector returned
  flux_out,     \* how the flux call ended
  \* a single call of a function of the program
  args,         \* the arguments of the call
  result,       \* the value it returned
  outcome       \* how it ended: "none", "returned", "thrown", ...

cfgVars   == <<rdof, ndof, ndofel, intsharp, limiter, accuracy_test,
               shock_detection, prelax, m_bc, build>>
ctlVars   == <<pc, e, what>>
rowVars   == <<U, P, U0, P0>>
cleanVars == <<k, kmax, almax, p_target, tmax, d_al, d_arE,
               neg_density, ret, negSeen>>
fieldVars == <<unk, prim, unk0, prim0>>
limVars   == <<phic, phip, phic_p2, phip_p2, U_lim, P_lim, shockmarker>>
rhsVars   == <<R, riemannDeriv, rlog, ibc, iss, ifc>>
fluxVars  == <<ustate, fl, flux_out>>
callVars  == <<args, result, outcome>>

vars == <<cfgVars, ctlVars, rowVars, cleanVars, fieldVars, limVars, rhsVars,
          fluxVars, callVars>>

----------------------------------------------------------------------------
(* cleanTraceMultiMat (PDE/Limiter.cpp).  Urow and Prow are the rows       *)
(* U(e,.) and P(e,.) of one element, indexed from 0.  te is the value      *)
(* eos_totalenergy returns for the material.                               *)

al_eps == Rat(1, 100)

\* almax and kmax: the material in largest quantity
RECURSIVE MajorityFrom(_, _, _)
MajorityFrom(Urow, j, m) ==
  IF j = nmat THEN m
  ELSE MajorityFrom(Urow, j + 1,
         IF NGt(Urow[volfracDofIdx(nmat, j, rdof, 0)], m.almax)
         THEN [almax |-> Urow[volfracDofIdx(nmat, j, rdof, 0)], kmax |-> j]
         ELSE m)

Majority(Urow) == MajorityFrom(Urow, 0, [almax |-> Zero, kmax |-> 0])

\* F with the DOF 1 of the components comps set to zero
ZeroFirstHighOrder(F, comps) ==
  [i \in DOMAIN F |->
     IF i % rdof = 1 /\ (i \div rdof) \in comps THEN Zero ELSE F[i]]

\* F with the DOFs 1..rdof-1 of the components comps set to zero
ZeroHighOrder(F, comps) ==
  [i \in DOMAIN F |->
     IF i % rdof # 0 /\ (i \div rdof) \in comps THEN Zero ELSE F[i]]

\* 1. correct one minority material and store volume/energy changes
CorrectMaterial(s, j, p_t, t_max, te) ==
  LET alk == s.U[volfracDofIdx(nmat, j, rdof, 0)]
      pk  == NDiv(s.P[pressureDofIdx(nmat, j, rdof, 0)], alk)
      Pck == pstiff(j)
  IN
  IF matExists(alk)
  THEN IF NLt(alk, al_eps) \/ NLt(NAdd(pk, Pck), Zero)
       THEN LET alk_new == alk
                rhomat  == NDiv(s.U[densityDofIdx(nmat, j, rdof, 0)], alk_new)
                rhoEmat == eos_totalenergy(rhomat, p_t, te)
            IN  [ U |-> [s.U EXCEPT
                          ![volfracDofIdx(nmat, j, rdof, 0)] = alk_new,
                          ![energyDofIdx(nmat, j, rdof, 0)] = NMul(alk_new, rhoEmat)],
                  P |-> [s.P EXCEPT
                          ![pressureDofIdx(nmat, j, rdof, 0)] = NMul(alk_new, p_t)],
                  d_al  |-> NAdd(s.d_al, NSub(alk, alk_new)),
                  d_arE |-> NAdd(s.d_arE,
                                 NSub(s.U[energyDofIdx(nmat, j, rdof, 0)],
                                      NMul(alk_new, rhoEmat))) ]
       ELSE s
  ELSE IF NLt(alk, Zero)
  THEN LET rhok == eos_density(p_t, t_max)
       IN  [ U |-> ZeroHighOrder(
                     [s.U EXCEPT
                       ![volfracDofIdx(nmat, j, rdof, 0)] = Tiny(1),
                       ![densityDofIdx(nmat, j, rdof, 0)] = NMul(Tiny(1), rhok),
                       ![energyDofIdx(nmat, j, rdof, 0)] =
                          NMul(Tiny(1), eos_totalenergy(rhok, p_t, te))],
                     {volfracIdx(nmat, j), densityIdx(nmat, j), energyIdx(nmat, j)}),
             P |-> ZeroHighOrder(
                     [s.P EXCEPT
                       ![pressureDofIdx(nmat, j, rdof, 0)] = NMul(Tiny(1), p_t)],
                     {pressureIdx(nmat, j)}),
             d_al  |-> NAdd(s.d_al, NSub(alk, Tiny(1))),
             d_arE |-> s.d_arE ]
  ELSE LET rhok == NDiv(s.U[densityDofIdx(nmat, j, rdof, 0)], alk)
       IN  [ U |-> ZeroHighOrder(
                     [s.U EXCEPT
                       ![energyDofIdx(nmat, j, rdof, 0)] =
                          NMul(alk, eos_totalenergy(rhok, p_t, te))],
                     {energyIdx(nmat, j)}),
             P |-> ZeroHighOrder(
                     [s.P EXCEPT
                       ![pressureDofIdx(nmat, j, rdof, 0)] = NMul(alk, p_t)],
                     {pressureIdx(nmat, j)}),
             d_al |-> s.d_al, d_arE |-> s.d_arE ]

\* the volume change alone
FluxVolumeIntoMajority(Urow, km, dal, darE) ==
  [Urow EXCEPT ![volfracDofIdx(nmat, km, rdof, 0)] = NAdd(@, dal)]

\* 2. flux volume and energy change into majority material
FluxIntoMajority(Urow, km, dal, darE) ==
  [Urow EXCEPT ![volfracDofIdx(nmat, km, rdof, 0)] = NAdd(@, dal),
               ![energyDofIdx(nmat, km, rdof, 0)] = NAdd(@, darE)]

\* the sum of the cell-average volume fractions
RECURSIVE VolfracSumFrom(_, _)
VolfracSumFrom(Urow, j) ==
  IF j = nmat THEN Zero
  ELSE NAdd(Urow[volfracDofIdx(nmat, j, rdof, 0)], VolfracSumFrom(Urow, j + 1))

\* enforce unit sum of volume fractions: the cell averages of comps / alsum
Renormalize(F, alsum, comps) ==
  [i \in DOMAIN F |->
     IF i % rdof = 0 /\ (i \div rdof) \in comps THEN NDiv(F[i], alsum) ELSE F[i]]

\* the check restricted to the first material
NegativeDensityFirst(Urow) ==
  NLt(Urow[densityDofIdx(nmat, 0, rdof, 0)], Zero)

\* check for unphysical state
NegativeDensity(Urow) ==
  \E j \in Mats : NLt(Urow[densityDofIdx(nmat, j, rdof, 0)], Zero)

----------------------------------------------------------------------------
(* cleanTraceMultiMat visits the elements one after the other and touches   *)
(* only the row of the element it visits, so the model keeps the row of    *)
(* the element under the loop: U and P are that row, U0 and P0 its value   *)
(* when the loop body was entered.                                         *)

NoRow == <<>>

NegDensityMsg == "Negative partial density."
EosMsg        == "has nan/inf partial pressure"

\* values of the inputs of one cleanup pass
AlphaVals == {Rat(-1, 1), Zero, Tiny(100), Rat(1, 128), One}
DensVals  == {Rat(-1, 1), One}
PresVals  == {Rat(-1, 1), One}
TeVals    == {One, Rat(2, 1)}
PeVals    == {One, NaN}

\* the row U(e,.) with the given cell averages; high-order DOFs are 1
RowU(al, arho) ==
  [i \in 0..(ncomp * rdof - 1) |->
     IF i % rdof # 0 THEN One
     ELSE IF i \div rdof < nmat THEN al[i \div rdof]
     ELSE IF i \div rdof < 2 * nmat THEN arho[(i \div rdof) - nmat]
     ELSE One]

\* the row P(e,.): partial pressures apk and velocity (1,0,0)
RowP(apk) ==
  [i \in 0..(nprim * rdof - 1) |->
     IF i % rdof # 0 THEN One
     ELSE IF i \div rdof < nmat THEN apk[i \div rdof]
     ELSE IF i \div rdof = nmat THEN One ELSE Zero]

IdleRows == U = NoRow /\ P = NoRow /\ U0 = NoRow /\ P0 = NoRow

IdleFields ==
  /\ unk = <<>> /\ prim = <<>> /\ unk0 = <<>> /\ prim0 = <<>>

IdleLim ==
  /\ phic = <<>> /\ phip = <<>> /\ phic_p2 = <<>> /\ phip_p2 = <<>>
  /\ U_lim = <<>> /\ P_lim = <<>> /\ shockmarker = <<>>

IdleRhs ==
  /\ R = <<>> /\ riemannDeriv = <<>> /\ rlog = <<>>
  /\ ibc = 0 /\ iss = 0 /\ ifc = 0

IdleFlux == ustate = <<>> /\ fl = <<>> /\ flux_out = "none"

IdleCall == args = <<>> /\ result = <<>> /\ outcome = "none"

IdleClean ==
  /\ k = 0 /\ kmax = 0 /\ almax = Zero /\ p_target = Zero /\ tmax = Zero
  /\ d_al = Zero /\ d_arE = Zero
  /\ neg_density = FALSE /\ ret = FALSE /\ negSeen = FALSE

\* the cleanup runs on the P0P1/DGP1 fields of a two-stage time step
InitClean ==
  /\ rdof = 4 /\ ndof = 4 /\ ndofel = [x \in Elems |-> ndof]
  /\ intsharp = 0 /\ limiter = "nolimiter" /\ prelax = 0 /\ m_bc = <<>>
  /\ accuracy_test = FALSE /\ shock_detection = FALSE
  /\ build = "Release"
  /\ pc = "clean_head" /\ e = 0 /\ what = ""
  /\ IdleRows /\ IdleClean /\ IdleFields /\ IdleLim /\ IdleRhs /\ IdleFlux
  /\ IdleCall

\* loop test, then the majority material, its pressure and temperature
CleanBegin ==
  /\ pc = "clean_head" /\ e < nelem
  /\ \E al \in [Mats -> AlphaVals], arho \in [Mats -> DensVals],
        apk \in [Mats -> PresVals] :
       \E Ue \in {RowU(al, arho)}, Pe \in {RowP(apk)} :
         \E m \in {Majority(Ue)} :
           /\ U' = Ue /\ P' = Pe /\ U0' = Ue /\ P0' = Pe
           /\ kmax' = m.kmax /\ almax' = m.almax
           /\ tmax' = eos_temperature(
                        Ue[densityDofIdx(nmat, m.kmax, rdof, 0)],
                        Pe[velocityDofIdx(nmat, 0, rdof, 0)],
                        Pe[velocityDofIdx(nmat, 1, rdof, 0)],
                        Pe[velocityDofIdx(nmat, 2, rdof, 0)],
                        Ue[energyDofIdx(nmat, m.kmax, rdof, 0)], m.almax)
           /\ p_target' = StdMax(NDiv(Pe[pressureDofIdx(nmat, m.kmax, rdof, 0)],
                                      m.almax), Tiny(1))
  /\ d_al' = Zero /\ d_arE' = Zero /\ k' = 0
  /\ pc' = "clean_minor"
  /\ UNCHANGED <<e, what, neg_density, ret, negSeen>>
  /\ UNCHANGED <<cfgVars, fieldVars, limVars, rhsVars, fluxVars, callVars>>

\* 1. one pass of the loop over the materials
CleanMinor ==
  /\ pc = "clean_minor" /\ k < nmat
  /\ \E te \in TeVals :
       \E s \in {CorrectMaterial([U |-> U, P |-> P, d_al |-> d_al, d_arE |-> d_arE],
                                 k, p_target, tmax, te)} :
         /\ U' = s.U /\ P' = s.P /\ d_al' = s.d_al /\ d_arE' = s.d_arE
  /\ k' = k + 1
  /\ UNCHANGED <<pc, e, U0, P0, what, kmax, almax, p_target, tmax,
                 neg_density, ret, negSeen>>
  /\ UNCHANGED <<cfgVars, fieldVars, limVars, rhsVars, fluxVars, callVars>>

\* 2. the majority material takes the changes; its pressure from the EOS
CleanMajor ==
  /\ pc = "clean_minor" /\ k = nmat
  /\ \E pe \in PeVals :
       \E U2 \in {FluxIntoMajority(U, kmax, d_al, d_arE)} :
         \E eos \in {eos_pressure(U2[densityDofIdx(nmat, kmax, rdof, 0)],
                                  U2[energyDofIdx(nmat, kmax, rdof, 0)],
                                  U2[volfracDofIdx(nmat, kmax, rdof, 0)], pe)} :
           /\ U' = U2
           /\ IF eos.thrown
              THEN pc' = "thrown" /\ what' = EosMsg /\ P' = P
              ELSE /\ pc' = "clean_renorm" /\ what' = what
                   /\ P' = [P EXCEPT ![pressureDofIdx(nmat, kmax, rdof, 0)] = eos.p]
  /\ UNCHANGED <<e, U0, P0, k, kmax, almax, p_target, tmax, d_al, d_arE,
                 neg_density, ret, negSeen>>
  /\ UNCHANGED <<cfgVars, fieldVars, limVars, rhsVars, fluxVars, callVars>>

\* enforce unit sum of volume fractions, then check for unphysical state
CleanRenorm ==
  /\ pc = "clean_renorm"
  /\ \E alsum \in {VolfracSumFrom(U, 0)} :
       \E U3 \in {Renormalize(U, alsum,
                    {volfracIdx(nmat, j) : j \in Mats} \cup
                    {densityIdx(nmat, j) : j \in Mats} \cup
                    {energyIdx(nmat, j) : j \in Mats})} :
         /\ U' = U3
         /\ P' = Renormalize(P, alsum, {pressureIdx(nmat, j) : j \in Mats})
         /\ neg_density' = (neg_density \/ NegativeDensity(U3))
         /\ negSeen' = (negSeen \/
              \E j \in Mats : Sign(U3[densityIdx(nmat, j) * rdof]) < 0)
  /\ pc' = "clean_next"
  /\ UNCHANGED <<e, U0, P0, what, k, kmax, almax, p_target, tmax, d_al, d_arE,
                 ret>>
  /\ UNCHANGED <<cfgVars, fieldVars, limVars, rhsVars, fluxVars, callVars>>

\* ++e: the loop moves to the next element
CleanNext ==
  /\ pc = "clean_next"
  /\ pc' = "clean_head" /\ e' = e + 1
  /\ U' = NoRow /\ P' = NoRow /\ U0' = NoRow /\ P0' = NoRow
  /\ k' = 0 /\ kmax' = 0 /\ almax' = Zero /\ p_target' = Zero /\ tmax' = Zero
  /\ d_al' = Zero /\ d_arE' = Zero
  /\ UNCHANGED <<what, neg_density, ret, negSeen>>
  /\ UNCHANGED <<cfgVars, fieldVars, limVars, rhsVars, fluxVars, callVars>>

\* cleanTraceMultiMat returns and cleanTraceMaterial escalates the flag
cleanTraceMaterial ==
  /\ pc = "clean_head" /\ e = nelem
  /\ ret' = neg_density
  /\ IF neg_density THEN pc' = "thrown" /\ what' = NegDensityMsg
                    ELSE pc' = "done" /\ what' = what
  /\ UNCHANGED <<e, U, P, U0, P0, k, kmax, almax, p_target, tmax, d_al, d_arE,
                 neg_density, negSeen>>
  /\ UNCHANGED <<cfgVars, fieldVars, limVars, rhsVars, fluxVars, callVars>>

NextClean ==
  \/ CleanBegin \/ CleanMinor \/ CleanMajor \/ CleanRenorm \/ CleanNext
  \/ cleanTraceMaterial

SpecClean == InitClean /\ [][NextClean]_vars

NAbs(x) == IF NLt(x, Zero) THEN NNeg(x) ELSE x

C2_Bounded ==
  pc = "clean_next" =>
    \A j \in Mats : /\ NLe(Zero, U[volfracDofIdx(nmat, j, rdof, 0)])
                    /\ NLe(U[volfracDofIdx(nmat, j, rdof, 0)], One)

\* C3: if after cleanup the cell-average partial density of any material in
\* any element is negative, cleanTraceMultiMat returns the negative-density
\* flag and cleanTraceMaterial throws; the cleanup never completes normally
\* with a negative partial density.
C3_NegDensityThrows ==
  /\ pc = "done" => ~negSeen
  /\ (pc \in {"done", "thrown"} /\ what # EosMsg /\ negSeen) =>
        (ret /\ pc = "thrown" /\ what = NegDensityMsg)

C3_Witness ==
  pc = "thrown" /\ what = NegDensityMsg /\ ret /\ negSeen /\ e = nelem

----------------------------------------------------------------------------
(* The limiters of the multi-material system (PDE/Limiter.cpp), called by  *)
(* MultiMat::limit.  unk[el] and prim[el] are the rows U(el,.) and P(el,.).*)
(* The limiter functions compute their coefficients from the solution in   *)
(* the elements around the nodes of an element; the mesh is not modelled,  *)
(* and the value such a function finds (phi_gp, phi_bound) is an input.    *)

Comps == 0..(ncomp - 1)
Prims == 0..(nprim - 1)

VolfracComps  == {volfracIdx(nmat, j) : j \in Mats}
DensityComps  == {densityIdx(nmat, j) : j \in Mats}
EnergyComps   == {energyIdx(nmat, j) : j \in Mats}
MomentumComps == {momentumIdx(nmat, i) : i \in 0..2}
PressureComps == {pressureIdx(nmat, j) : j \in Mats}

LimiterMsg == "Limiter type not configured for multimat."

LimiterTypes == {"superbeep1", "vertexbasedp1", "wenop1", "nolimiter"}

\* values of the inputs of one limiter pass
PhiVals      == {Rat(1, 2), One}
LimAlphaVals == <<Zero, Rat(1, 2), One>>
ProjVals     == {Zero, Rat(3, 1), NaN}

\* the local numbers of dofs of a p-adaptive discretisation
Orders == <<10, 4, 1>>

\* std::vector< tk::real > phi(n, 1.0)
Ones(n) == [c \in 0..(n - 1) |-> One]

\* the number of dofs the limiter works on in element el
DofEl(el) == IF rdof > ndof THEN rdof ELSE ndofel[el]

\* the values shockmarker[el] can take
ShockMarks(el) == IF shock_detection /\ ndofel[el] > 1 THEN {0, 1} ELSE {1}

\* SuperbeeLimiting: a fresh vector of coefficients, each 1 or smaller
SuperbeeLimiting(n, phi_gp) == [c \in 0..(n - 1) |-> StdMin(One, phi_gp)]

\* VertexBasedLimiting and VertexBasedLimiting_P2:
\* phi[c] = min(phi[c], phi_gp) for the components of VarRange
VertexBasedLimiting(phi, VarRange, phi_gp) ==
  [c \in DOMAIN phi |->
     IF c \in VarRange THEN StdMin(phi[c], phi_gp) ELSE phi[c]]

\* the materials whose cell-average volume fraction is below 1e-4
MinorMats(Urow) ==
  {j \in Mats : NLt(Urow[volfracDofIdx(nmat, j, rdof, 0)], Rat(1, 10000))}

\* the tail of BoundPreservingLimiting; nd is its argument ndof
BoundPreservingLimiting(c1, c2, nd, phi_bound) ==
  [phic_p1 |-> [c \in DOMAIN c1 |->
                  IF c \in VolfracComps THEN StdMin(phi_bound, c1[c])
                  ELSE c1[c]],
   phic_p2 |-> IF nd > 4
               THEN [c \in DOMAIN c2 |->
                       IF c \in VolfracComps THEN StdMin(phi_bound, c2[c])
                       ELSE c2[c]]
               ELSE c2]

\* the components of range take bound
PositivityBoundReplace(phi, range, bound) ==
  [c \in DOMAIN phi |-> IF c \in range THEN bound ELSE phi[c]]

\* the tail of PositivityLimitingMultiMat on one coefficient vector:
\* the components of range take min(bound, phi)
PositivityBound(phi, range, bound) ==
  [c \in DOMAIN phi |-> IF c \in range THEN StdMin(bound, phi[c]) ELSE phi[c]]

PositivityLimitingMultiMat(c1, c2, p1, p2, nd, phic_bound, phip_bound) ==
  [phic_p1 |-> PositivityBound(c1, Comps \ VolfracComps, phic_bound),
   phip_p1 |-> PositivityBound(p1, PressureComps, phip_bound),
   phic_p2 |-> IF nd > 4
               THEN PositivityBound(c2, Comps \ VolfracComps, phic_bound)
               ELSE c2,
   phip_p2 |-> IF nd > 4
               THEN PositivityBound(p2, PressureComps, phip_bound)
               ELSE p2]

RECURSIVE AlmaxFrom(_, _, _)
AlmaxFrom(Urow, j, m) ==
  IF j = nmat THEN m
  ELSE AlmaxFrom(Urow, j + 1, StdMax(m, Urow[volfracDofIdx(nmat, j, rdof, 0)]))

\* the test against loLim alone
interfaceIndicatorNoUpper(Urow) ==
  [matInt |-> [j \in Mats |->
                 IF NGt(Urow[volfracDofIdx(nmat, j, rdof, 0)], Rat(1, 50000000))
                 THEN 1 ELSE 0],
   intInd |-> \E m \in {AlmaxFrom(Urow, 0, Zero)} : NGt(m, Rat(1, 50000000))]

\* interfaceIndicator on the cell-average volume fractions of the row
interfaceIndicator(Urow) ==
  [matInt |-> [j \in Mats |->
                 IF /\ NGt(Urow[volfracDofIdx(nmat, j, rdof, 0)],
                           Rat(1, 50000000))
                    /\ NLt(Urow[volfracDofIdx(nmat, j, rdof, 0)],
                           NSub(One, Rat(1, 50000000)))
                 THEN 1 ELSE 0],
   intInd |-> \E m \in {AlmaxFrom(Urow, 0, Zero)} :
                /\ NGt(m, Rat(1, 50000000))
                /\ NLt(m, NSub(One, Rat(1, 50000000)))]

\* phic[volfracIdx(nmat,k)] = 1.0 for every material
SharpenAll(phi, matInt) ==
  [c \in DOMAIN phi |-> IF c \in VolfracComps THEN One ELSE phi[c]]

\* phic[volfracIdx(nmat,k)] = 1.0 for the materials with an interface
SharpenCoefficients(phi, matInt) ==
  [c \in DOMAIN phi |->
     IF c \in {volfracIdx(nmat, j) : j \in {i \in Mats : matInt[i] = 1}}
     THEN One ELSE phi[c]]

\* the coefficient of the last material in place of the minimum
RECURSIVE PhiAlLast(_, _, _)
PhiAlLast(phi, j, m) ==
  IF j = nmat THEN m ELSE PhiAlLast(phi, j + 1, phi[volfracIdx(nmat, j)])

RECURSIVE PhiAlFrom(_, _, _)
PhiAlFrom(phi, j, m) ==
  IF j = nmat THEN m
  ELSE PhiAlFrom(phi, j + 1, StdMin(m, phi[volfracIdx(nmat, j)]))

\* the largest cell-average volume fraction, found with a strict comparison
RECURSIVE ConsistentAlmaxFrom(_, _, _)
ConsistentAlmaxFrom(Urow, j, m) ==
  IF j = nmat THEN m
  ELSE ConsistentAlmaxFrom(Urow, j + 1,
         IF NLt(m, Urow[volfracDofIdx(nmat, j, rdof, 0)])
         THEN Urow[volfracDofIdx(nmat, j, rdof, 0)] ELSE m)

\* the rewrite of the density slopes alone
ConsistentDofsDensity(Urow) ==
  [i \in DOMAIN Urow |->
     IF i % rdof >= 1 /\ (i \div rdof) \in DensityComps
     THEN NMul(NDiv(Urow[(i \div rdof) * rdof],
                    StdMax(Tiny(1),
                           Urow[volfracDofIdx(nmat,
                                  (i \div rdof) - densityIdx(nmat, 0),
                                  rdof, 0)])),
               Urow[volfracDofIdx(nmat, (i \div rdof) - densityIdx(nmat, 0),
                                  rdof, i % rdof)])
     ELSE Urow[i]]

\* 1. consistent high-order dofs: the slopes of the partial density and
\* energy of a material follow the slope of its volume fraction
ConsistentDofs(Urow) ==
  [i \in DOMAIN Urow |->
     IF i % rdof >= 1 /\ (i \div rdof) \in DensityComps \cup EnergyComps
     THEN NMul(NDiv(Urow[(i \div rdof) * rdof],
                    StdMax(Tiny(1),
                           Urow[volfracDofIdx(nmat,
                                  IF (i \div rdof) \in DensityComps
                                  THEN (i \div rdof) - densityIdx(nmat, 0)
                                  ELSE (i \div rdof) - energyIdx(nmat, 0),
                                  rdof, 0)])),
               Urow[volfracDofIdx(nmat,
                      IF (i \div rdof) \in DensityComps
                      THEN (i \div rdof) - densityIdx(nmat, 0)
                      ELSE (i \div rdof) - energyIdx(nmat, 0),
                      rdof, i % rdof)])
     ELSE Urow[i]]

\* the same coefficient for every component
SameCoefficientAll(phi, range, phi_al) == [c \in DOMAIN phi |-> phi_al]

\* 2. the same coefficient for the components of range
SameCoefficient(phi, range, phi_al) ==
  [c \in DOMAIN phi |-> IF c \in range THEN phi_al ELSE phi[c]]

consistentMultiMatLimiting_P1(Urow, c1, c2) ==
  IF \E m \in {ConsistentAlmaxFrom(Urow, 0, Zero)} :
       NGt(m, Rat(1, 10000)) /\ NLt(m, NSub(One, Rat(1, 10000)))
  THEN [U |-> ConsistentDofs(Urow),
        phic_p1 |-> SameCoefficient(c1,
                      VolfracComps \cup DensityComps \cup EnergyComps,
                      PhiAlFrom(c1, 0, One)),
        phic_p2 |-> IF rdof > 4
                    THEN SameCoefficient(c2,
                           VolfracComps \cup DensityComps \cup EnergyComps,
                           PhiAlFrom(c2, 0, One))
                    ELSE c2]
  ELSE [U |-> Urow,
        phic_p1 |-> SameCoefficient(c1, VolfracComps, PhiAlFrom(c1, 0, One)),
        phic_p2 |-> IF rdof > 4
                    THEN SameCoefficient(c2, VolfracComps,
                                         PhiAlFrom(c2, 0, One))
                    ELSE c2]

\* the end of an element's limiting: compression, or consistent limiting
CoupleCoefficients(Arow, Urow, c1, c2) ==
  IF intsharp > 0 /\ interfaceIndicator(Arow).intInd
  THEN [U |-> Urow,
        phic_p1 |-> SharpenCoefficients(c1, interfaceIndicator(Arow).matInt),
        phic_p2 |-> IF c2 = <<>> THEN c2
                    ELSE SharpenCoefficients(c2,
                           interfaceIndicator(Arow).matInt)]
  ELSE IF ~accuracy_test THEN consistentMultiMatLimiting_P1(Urow, c1, c2)
  ELSE [U |-> Urow, phic_p1 |-> c1, phic_p2 |-> c2]

\* apply limiter function: the three P1 dofs of every component
ApplyLimiterFromP0(Frow, phi) ==
  [i \in DOMAIN Frow |->
     IF i % rdof \in 0..3 THEN NMul(phi[i \div rdof], Frow[i]) ELSE Frow[i]]

ApplyLimiter(Frow, phi) ==
  [i \in DOMAIN Frow |->
     IF i % rdof \in 1..3 THEN NMul(phi[i \div rdof], Frow[i]) ELSE Frow[i]]

\* apply limiter function to the P1 dofs and to the P2 dofs
ApplyLimiterP2(Frow, phi1, phi2) ==
  [i \in DOMAIN Frow |->
     IF i % rdof \in 1..3 THEN NMul(phi1[i \div rdof], Frow[i])
     ELSE IF i % rdof >= 4 THEN NMul(phi2[i \div rdof], Frow[i])
     ELSE Frow[i]]

\* tk::DubinerToTaylorRefEl and tk::TaylorToDubinerRefEl: an invertible
\* linear map of the dof_el - 1 high-order coefficients of a component
\* that leaves the cell average in place
DubinerToTaylorRefEl(Frow, dof_el) ==
  [i \in DOMAIN Frow |->
     IF i % rdof \in 1..(dof_el - 1) THEN NMul(Rat(2, 1), Frow[i])
     ELSE Frow[i]]

TaylorToDubinerRefEl(Trow, dof_el) ==
  [i \in DOMAIN Trow |->
     IF i % rdof \in 1..(dof_el - 1) THEN NDiv(Trow[i], Rat(2, 1))
     ELSE Trow[i]]

\* store the high-order dofs of row Srow in row Drow
StoreLimited(Drow, Srow) ==
  [i \in DOMAIN Drow |-> IF i % rdof >= 1 THEN Srow[i] ELSE Drow[i]]

\* the fields of a limiter pass: material 0 fills LimAlphaVals[x] of the
\* element, the other materials share the rest; unit material densities
LimAlpha(x) ==
  [j \in Mats |-> IF j = 0 THEN LimAlphaVals[x]
                  ELSE NDiv(NSub(One, LimAlphaVals[x]), Rat(nmat - 1, 1))]

InitLimit ==
  /\ limiter \in LimiterTypes
  /\ \E d \in {<<1, 4>>, <<4, 4>>, <<10, 10>>} : ndof = d[1] /\ rdof = d[2]
  /\ limiter = "superbeep1" => rdof = 4
  /\ \E y \in 0..(Len(Orders) - 1) :
       ndofel = [el \in Elems |->
                   IF Orders[1 + ((y + el) % Len(Orders))] <= ndof
                   THEN Orders[1 + ((y + el) % Len(Orders))] ELSE ndof]
  /\ intsharp \in {0, 1}
  /\ accuracy_test \in BOOLEAN /\ shock_detection \in BOOLEAN
  /\ prelax = 0 /\ m_bc = <<>> /\ build = "Release"
  /\ pc = "limit" /\ e = 0 /\ what = ""
  /\ \E x \in 0..(Len(LimAlphaVals) - 1) :
       /\ unk = [el \in Elems |->
                   RowU(LimAlpha(1 + ((x + el) % Len(LimAlphaVals))),
                        LimAlpha(1 + ((x + el) % Len(LimAlphaVals))))]
       /\ prim = [el \in Elems |->
                    RowP(LimAlpha(1 + ((x + el) % Len(LimAlphaVals))))]
  /\ unk0 = unk /\ prim0 = prim
  /\ IdleRows /\ IdleClean /\ IdleLim /\ IdleRhs /\ IdleFlux /\ IdleCall

NoCoefficients ==
  /\ phic' = <<>> /\ phip' = <<>> /\ phic_p2' = <<>> /\ phip_p2' = <<>>

\* the rest of the state, which no limiter step touches
notLimit == <<cfgVars, rowVars, cleanVars, rhsVars, fluxVars, callVars>>

\* MultiMat::limit: the limiter the input deck selects
limit ==
  /\ pc = "limit"
  /\ IF limiter = "superbeep1"
     THEN pc' = "sb_head" /\ what' = what /\ UNCHANGED <<U_lim, P_lim>>
     ELSE IF limiter = "vertexbasedp1" /\ rdof = 4
     THEN pc' = "p1_head" /\ what' = what /\ UNCHANGED <<U_lim, P_lim>>
     ELSE IF limiter = "vertexbasedp1" /\ rdof = 10
     THEN pc' = "p2_head" /\ what' = what /\ U_lim' = unk /\ P_lim' = prim
     ELSE IF limiter # "nolimiter"
     THEN pc' = "thrown" /\ what' = LimiterMsg /\ UNCHANGED <<U_lim, P_lim>>
     ELSE pc' = "limited" /\ what' = what /\ UNCHANGED <<U_lim, P_lim>>
  /\ e' = 0 /\ shockmarker' = [el \in Elems |-> 0]
  /\ UNCHANGED <<phic, phip, phic_p2, phip_p2, fieldVars, notLimit>>

\* SuperbeeMultiMat_P1, an element with a single dof
SuperbeeSkip ==
  /\ pc = "sb_head" /\ e < nelem /\ DofEl(e) <= 1
  /\ e' = e + 1
  /\ UNCHANGED <<pc, what, fieldVars, limVars, notLimit>>

\* SuperbeeMultiMat_P1: the limiter functions of an element
SuperbeeCoefficients ==
  /\ pc = "sb_head" /\ e < nelem /\ DofEl(e) > 1
  /\ \E fc \in PhiVals, fb \in PhiVals :
       /\ phic' = IF ndof > 1
                  THEN BoundPreservingLimiting(SuperbeeLimiting(ncomp, fc),
                                               <<>>, ndof, fb).phic_p1
                  ELSE SuperbeeLimiting(ncomp, fc)
       /\ phip' = SuperbeeLimiting(nprim, fc)
  /\ pc' = "sb_apply"
  /\ UNCHANGED <<e, what, phic_p2, phip_p2, U_lim, P_lim, shockmarker,
                 fieldVars, notLimit>>

\* SuperbeeMultiMat_P1: couple the coefficients and apply them
SuperbeeApply ==
  /\ pc = "sb_apply"
  /\ \E cc \in {CoupleCoefficients(unk[e], unk[e], phic, phic_p2)} :
       unk' = [unk EXCEPT ![e] = ApplyLimiter(cc.U, cc.phic_p1)]
  /\ prim' = [prim EXCEPT ![e] = ApplyLimiter(prim[e], phip)]
  /\ NoCoefficients
  /\ pc' = "sb_head" /\ e' = e + 1
  /\ UNCHANGED <<what, unk0, prim0, U_lim, P_lim, shockmarker, notLimit>>

SuperbeeDone ==
  /\ pc = "sb_head" /\ e = nelem
  /\ pc' = "limited"
  /\ UNCHANGED <<e, what, fieldVars, limVars, notLimit>>

\* VertexBasedMultiMat_P1, an element with a single dof
P1Skip ==
  /\ pc = "p1_head" /\ e < nelem /\ DofEl(e) <= 1
  /\ \E sm \in ShockMarks(e) : shockmarker' = [shockmarker EXCEPT ![e] = sm]
  /\ e' = e + 1
  /\ UNCHANGED <<pc, what, phic, phip, phic_p2, phip_p2, U_lim, P_lim,
                 fieldVars, notLimit>>

\* VertexBasedMultiMat_P1: shock marker, vertex-based coefficients, then
\* the bound-preserving and the positivity-preserving coefficients
P1Coefficients ==
  /\ pc = "p1_head" /\ e < nelem /\ DofEl(e) > 1
  /\ \E sm \in ShockMarks(e), fc \in PhiVals, fb \in PhiVals :
       /\ shockmarker' = [shockmarker EXCEPT ![e] = sm]
       /\ \E c1 \in {VertexBasedLimiting(Ones(ncomp),
                       IF sm = 1 THEN Comps
                       ELSE VolfracComps
                            \cup {densityIdx(nmat, j) : j \in MinorMats(unk[e])}
                            \cup {energyIdx(nmat, j) : j \in MinorMats(unk[e])},
                       fc)},
             p1 \in {VertexBasedLimiting(Ones(nprim),
                       IF sm = 1 THEN Prims
                       ELSE {pressureIdx(nmat, j) : j \in MinorMats(unk[e])},
                       fc)} :
            \E c2 \in {IF ndof > 1 /\ intsharp = 0 /\ nmat > 1
                       THEN BoundPreservingLimiting(c1, <<>>, ndof, fb).phic_p1
                       ELSE c1} :
              IF intsharp = 0
              THEN \E pos \in {PositivityLimitingMultiMat(c2, <<>>, p1, <<>>,
                                                           rdof, fb, fb)} :
                     phic' = pos.phic_p1 /\ phip' = pos.phip_p1
              ELSE phic' = c2 /\ phip' = p1
  /\ pc' = "p1_apply"
  /\ UNCHANGED <<e, what, phic_p2, phip_p2, U_lim, P_lim, fieldVars, notLimit>>

\* VertexBasedMultiMat_P1: couple the coefficients and apply them
P1Apply ==
  /\ pc = "p1_apply"
  /\ \E cc \in {CoupleCoefficients(unk[e], unk[e], phic, phic_p2)} :
       unk' = [unk EXCEPT ![e] = ApplyLimiter(cc.U, cc.phic_p1)]
  /\ prim' = [prim EXCEPT ![e] = ApplyLimiter(prim[e], phip)]
  /\ NoCoefficients
  /\ pc' = "p1_head" /\ e' = e + 1
  /\ UNCHANGED <<what, unk0, prim0, U_lim, P_lim, shockmarker, notLimit>>

P1Done ==
  /\ pc = "p1_head" /\ e = nelem
  /\ pc' = "limited"
  /\ UNCHANGED <<e, what, fieldVars, limVars, notLimit>>

\* VertexBasedMultiMat_P2, an element with a single dof
P2Skip ==
  /\ pc = "p2_head" /\ e < nelem /\ DofEl(e) <= 1
  /\ \E sm \in ShockMarks(e) : shockmarker' = [shockmarker EXCEPT ![e] = sm]
  /\ e' = e + 1
  /\ UNCHANGED <<pc, what, phic, phip, phic_p2, phip_p2, U_lim, P_lim,
                 fieldVars, notLimit>>

\* the coefficients taken with std::min in place of std::max
MinCoefficients(c1, c2) == [c \in DOMAIN c1 |-> StdMin(c1[c], c2[c])]

\* phic_p1[c] = std::max(phic_p1[c], phic_p2[c])
MaxCoefficients(c1, c2) == [c \in DOMAIN c1 |-> StdMax(c1[c], c2[c])]

RECURSIVE CommonAlFrom(_, _, _)
CommonAlFrom(phi, j, m) ==
  IF j = nmat THEN m
  ELSE CommonAlFrom(phi, j + 1, StdMin(phi[volfracIdx(nmat, j)], m))

\* the components VertexBasedMultiMat_P2 limits in an element
P2Comps(sm, Urow) ==
  IF sm = 1 THEN Comps
  ELSE VolfracComps \cup {densityIdx(nmat, j) : j \in MinorMats(Urow)}

P2Prims(sm, Urow) ==
  IF sm = 1 THEN Prims ELSE {pressureIdx(nmat, j) : j \in MinorMats(Urow)}

\* VertexBasedMultiMat_P2: the hierarchical limiting of the Taylor
\* coefficients of an element, stored in U_lim and P_lim
P2Taylor ==
  /\ pc = "p2_head" /\ e < nelem /\ DofEl(e) > 1
  /\ \E sm \in ShockMarks(e), f1 \in PhiVals, f2 \in PhiVals :
       /\ shockmarker' = [shockmarker EXCEPT ![e] = sm]
       /\ \E c2 \in {IF DofEl(e) > 4
                     THEN VertexBasedLimiting(Ones(ncomp), P2Comps(sm, unk[e]),
                                              f2)
                     ELSE Ones(ncomp)},
             p2 \in {IF DofEl(e) > 4
                     THEN VertexBasedLimiting(Ones(nprim), P2Prims(sm, unk[e]),
                                              f2)
                     ELSE Ones(nprim)},
             c1 \in {VertexBasedLimiting(Ones(ncomp), P2Comps(sm, unk[e]),
                                         f1)},
             p1 \in {VertexBasedLimiting(Ones(nprim), P2Prims(sm, unk[e]),
                                         f1)} :
            \E c1m \in {IF DofEl(e) > 4 THEN MaxCoefficients(c1, c2) ELSE c1},
               p1m \in {IF DofEl(e) > 4 THEN MaxCoefficients(p1, p2) ELSE p1} :
              \E c1a \in {SameCoefficient(c1m, VolfracComps,
                                          CommonAlFrom(c1m, 0, One))},
                 c2a \in {SameCoefficient(c2, VolfracComps,
                                          CommonAlFrom(c2, 0, One))} :
                /\ \E T \in {ApplyLimiterP2(
                               DubinerToTaylorRefEl(unk[e], DofEl(e)),
                               c1a, c2a)} :
                     U_lim' = [U_lim EXCEPT ![e] =
                       StoreLimited(U_lim[e],
                                    TaylorToDubinerRefEl(T, DofEl(e)))]
                /\ \E T \in {ApplyLimiterP2(
                               DubinerToTaylorRefEl(prim[e], DofEl(e)),
                               p1m, p2)} :
                     P_lim' = [P_lim EXCEPT ![e] =
                       StoreLimited(P_lim[e],
                                    TaylorToDubinerRefEl(T, DofEl(e)))]
  /\ phic' = Ones(ncomp) /\ phic_p2' = Ones(ncomp)
  /\ phip' = Ones(nprim) /\ phip_p2' = Ones(nprim)
  /\ pc' = "p2_bounds"
  /\ UNCHANGED <<e, what, fieldVars, notLimit>>

\* VertexBasedMultiMat_P2: the bound-preserving and the positivity-
\* preserving coefficients of the limited solution
P2Bounds ==
  /\ pc = "p2_bounds"
  /\ \E fb \in PhiVals :
       \E bp \in {IF ndof > 1 /\ intsharp = 0
                  THEN BoundPreservingLimiting(phic, phic_p2, ndof, fb)
                  ELSE [phic_p1 |-> phic, phic_p2 |-> phic_p2]} :
         \E pos \in {PositivityLimitingMultiMat(bp.phic_p1, bp.phic_p2,
                                                phip, phip_p2, ndof, fb, fb)} :
           /\ phic' = pos.phic_p1 /\ phic_p2' = pos.phic_p2
           /\ phip' = pos.phip_p1 /\ phip_p2' = pos.phip_p2
  /\ pc' = "p2_apply"
  /\ UNCHANGED <<e, what, U_lim, P_lim, shockmarker, fieldVars, notLimit>>

\* VertexBasedMultiMat_P2: couple the coefficients and apply them
P2Apply ==
  /\ pc = "p2_apply"
  /\ \E cc \in {CoupleCoefficients(unk[e], U_lim[e], phic, phic_p2)} :
       U_lim' = [U_lim EXCEPT ![e] =
                   ApplyLimiterP2(cc.U, cc.phic_p1, cc.phic_p2)]
  /\ P_lim' = [P_lim EXCEPT ![e] = ApplyLimiterP2(P_lim[e], phip, phip_p2)]
  /\ NoCoefficients
  /\ pc' = "p2_head" /\ e' = e + 1
  /\ UNCHANGED <<what, shockmarker, fieldVars, notLimit>>

\* VertexBasedMultiMat_P2: the first loop over the elements ends
P2Limited ==
  /\ pc = "p2_head" /\ e = nelem
  /\ pc' = "p2_store" /\ e' = 0
  /\ UNCHANGED <<what, fieldVars, limVars, notLimit>>

\* VertexBasedMultiMat_P2: store the limited solution of an element
P2Store ==
  /\ pc = "p2_store" /\ e < nelem
  /\ unk' = [unk EXCEPT ![e] = StoreLimited(unk[e], U_lim[e])]
  /\ prim' = [prim EXCEPT ![e] = StoreLimited(prim[e], P_lim[e])]
  /\ e' = e + 1
  /\ UNCHANGED <<pc, what, unk0, prim0, limVars, notLimit>>

P2Done ==
  /\ pc = "p2_store" /\ e = nelem
  /\ pc' = "limited" /\ U_lim' = <<>> /\ P_lim' = <<>>
  /\ UNCHANGED <<e, what, phic, phip, phic_p2, phip_p2, shockmarker,
                 fieldVars, notLimit>>

----------------------------------------------------------------------------
(* The conservative re-projection after limiting: MultiMat::Correct_Conserv *)
(* and correctLimConservMultiMat (PDE/Limiter.cpp).  The quadrature, the   *)
(* basis and the mass matrix are not modelled: the projected coefficient   *)
(* R[mark+idof]/L[idof] is an input, not a number when a material is       *)
(* absent at a quadrature point.                                           *)

\* update the high order dofs of the material energy and the bulk momentum
ReprojectFromP0(Urow, rv) ==
  [i \in DOMAIN Urow |->
     IF i % rdof >= 0 /\ (i \div rdof) \in EnergyComps \cup MomentumComps
     THEN rv ELSE Urow[i]]

Reproject(Urow, rv) ==
  [i \in DOMAIN Urow |->
     IF i % rdof >= 1 /\ (i \div rdof) \in EnergyComps \cup MomentumComps
     THEN rv ELSE Urow[i]]

\* the fields the limiter hands over: its coefficient fc applied to the
\* high-order dofs of the fields of a limiter pass
InitCorrect ==
  /\ limiter \in {"superbeep1", "vertexbasedp1"}
  /\ \E d \in {<<1, 4>>, <<4, 4>>, <<10, 10>>} : ndof = d[1] /\ rdof = d[2]
  /\ limiter = "superbeep1" => rdof = 4
  /\ ndofel = [el \in Elems |-> ndof]
  /\ intsharp = 0 /\ accuracy_test = FALSE /\ shock_detection = FALSE
  /\ prelax = 0 /\ m_bc = <<>> /\ build = "Release"
  /\ pc = "limited" /\ e = 0 /\ what = ""
  /\ \E x \in 0..(Len(LimAlphaVals) - 1), fc \in PhiVals :
       /\ unk = [el \in Elems |->
                   ApplyLimiter(
                     RowU(LimAlpha(1 + ((x + el) % Len(LimAlphaVals))),
                          LimAlpha(1 + ((x + el) % Len(LimAlphaVals)))),
                     SuperbeeLimiting(ncomp, fc))]
       /\ prim = [el \in Elems |->
                    ApplyLimiter(
                      RowP(LimAlpha(1 + ((x + el) % Len(LimAlphaVals)))),
                      SuperbeeLimiting(nprim, fc))]
  /\ unk0 = unk /\ prim0 = prim
  /\ IdleRows /\ IdleClean /\ IdleLim /\ IdleRhs /\ IdleFlux /\ IdleCall

Correct_Conserv ==
  /\ pc = "limited"
  /\ pc' = "cc_head" /\ e' = 0
  /\ UNCHANGED <<what, fieldVars, limVars, notLimit>>

correctLimConservMultiMat ==
  /\ pc = "cc_head" /\ e < nelem
  /\ \E rv \in ProjVals : unk' = [unk EXCEPT ![e] = Reproject(unk[e], rv)]
  /\ e' = e + 1
  /\ UNCHANGED <<pc, what, prim, unk0, prim0, limVars, notLimit>>

CorrectDone ==
  /\ pc = "cc_head" /\ e = nelem
  /\ pc' = "corrected"
  /\ UNCHANGED <<e, what, fieldVars, limVars, notLimit>>

NextLimit ==
  \/ limit
  \/ SuperbeeSkip \/ SuperbeeCoefficients \/ SuperbeeApply \/ SuperbeeDone
  \/ P1Skip \/ P1Coefficients \/ P1Apply \/ P1Done
  \/ P2Skip \/ P2Taylor \/ P2Bounds \/ P2Apply \/ P2Limited \/ P2Store
  \/ P2Done

SpecLimit == InitLimit /\ [][NextLimit]_vars

NextCorrect == Correct_Conserv \/ correctLimConservMultiMat \/ CorrectDone

SpecCorrect == InitCorrect /\ [][NextCorrect]_vars

LimiterPcs == {"limit", "sb_head", "sb_apply", "p1_head", "p1_apply",
               "p2_head", "p2_bounds", "p2_apply", "p2_store", "limited"}

\* C4: the limiter never changes the P0 mode (DOF index 0) of any conserved
\* component of any element: U(e, c*rdof+0) is the same before, during and
\* after a limiter pass, the bound-preserving, positivity and consistency
\* sub-steps included.
C4_P0Unchanged ==
  pc \in LimiterPcs =>
    \A el \in Elems, c \in Comps : unk[el][c * rdof] = unk0[el][c * rdof]

C4_Witness ==
  /\ pc = "limited" /\ limiter = "vertexbasedp1" /\ rdof = 10
  /\ \E el \in Elems : unk[el] # unk0[el]
  /\ \A el \in Elems, c \in Comps : unk[el][c * rdof] = unk0[el][c * rdof]

\* C5: correctLimConservMultiMat overwrites only the high-order DOFs
\* (index 1..rdof-1) of the material energies and the bulk momentum; no P0
\* mode and no other component is written, so every cell average is the
\* same before and after.
C5_OnlyHighOrderRewritten ==
  pc \in {"cc_head", "corrected"} =>
    /\ prim = prim0
    /\ \A el \in Elems : \A i \in DOMAIN unk[el] :
         (i % rdof = 0 \/ (i \div rdof) \notin EnergyComps \cup MomentumComps)
           => unk[el][i] = unk0[el][i]

C5_Witness ==
  /\ pc = "corrected"
  /\ \A el \in Elems : unk[el] # unk0[el]
  /\ \A el \in Elems, c \in Comps : unk[el][c * rdof] = unk0[el][c * rdof]

----------------------------------------------------------------------------
(* The reset of the high-order solution of the p-adaptive scheme,          *)
(* MultiMat::resetAdapSol (PDE/MultiMat/DGMultiMat.hpp).  The scheme runs  *)
(* with ndof = rdof = 10 and a local number of dofs ndofel[e] in {1,4,10}. *)

\* values of the high-order coefficients on entry
AdapVals == {Zero, One}

\* a row of n components: cell average 1, P1 coefficients lo, P2 hi
AdapRow(n, lo, hi) ==
  [i \in 0..(n * rdof - 1) |->
     IF i % rdof = 0 THEN One ELSE IF i % rdof <= 3 THEN lo ELSE hi]

\* unk(e, mark+4) = 0.0 ... unk(e, mark+9) = 0.0 for every component
ResetHighOrderShort(Frow) ==
  [i \in DOMAIN Frow |->
     IF \E c \in 0..((Cardinality(DOMAIN Frow) \div rdof) - 1) :
          i \in (c * rdof + 4)..(c * rdof + 8)
     THEN Zero ELSE Frow[i]]

ResetHighOrder(Frow) ==
  [i \in DOMAIN Frow |->
     IF \E c \in 0..((Cardinality(DOMAIN Frow) \div rdof) - 1) :
          i \in (c * rdof + 4)..(c * rdof + 9)
     THEN Zero ELSE Frow[i]]

InitAdap ==
  /\ rdof = 10 /\ ndof = 10
  /\ ndofel \in [Elems -> {1, 4, 10}]
  /\ limiter = "vertexbasedp1" /\ intsharp = 0
  /\ accuracy_test = FALSE /\ shock_detection = FALSE
  /\ prelax = 0 /\ m_bc = <<>> /\ build = "Release"
  /\ pc = "adapt" /\ e = 0 /\ what = ""
  /\ \E lo \in [Elems -> AdapVals], hi \in [Elems -> AdapVals] :
       /\ unk = [el \in Elems |-> AdapRow(ncomp, lo[el], hi[el])]
       /\ prim = [el \in Elems |-> AdapRow(nprim, lo[el], hi[el])]
  /\ unk0 = unk /\ prim0 = prim
  /\ IdleRows /\ IdleClean /\ IdleLim /\ IdleRhs /\ IdleFlux /\ IdleCall

\* one pass of the loop over the elements
resetAdapSol ==
  /\ pc = "adapt" /\ e < nelem
  /\ IF ndofel[e] < 10
     THEN /\ unk' = [unk EXCEPT ![e] = ResetHighOrder(unk[e])]
          /\ prim' = [prim EXCEPT ![e] = ResetHighOrder(prim[e])]
     ELSE UNCHANGED <<unk, prim>>
  /\ e' = e + 1
  /\ UNCHANGED <<pc, what, unk0, prim0, limVars, notLimit>>

resetAdapSolDone ==
  /\ pc = "adapt" /\ e = nelem
  /\ pc' = "adapted"
  /\ UNCHANGED <<e, what, fieldVars, limVars, notLimit>>

NextAdap == resetAdapSol \/ resetAdapSolDone

SpecAdap == InitAdap /\ [][NextAdap]_vars

\* C7 as stated: after the adaptive-solution reset every element with
\* ndofel[e] < 10 has all U and P coefficients with mode index >= ndofel[e]
\* equal to zero (ndofel = 1: modes 1..9, ndofel = 4: modes 4..9).
C7_ModesAboveNdofelZero ==
  pc = "adapted" =>
    \A el \in Elems : ndofel[el] < 10 =>
      /\ \A i \in DOMAIN unk[el] :
           i % rdof >= ndofel[el] => unk[el][i] = Zero
      /\ \A i \in DOMAIN prim[el] :
           i % rdof >= ndofel[el] => prim[el][i] = Zero

\* C7 amended: after the adaptive-solution reset every element with
\* ndofel[e] < 10 has all U and P coefficients with mode index 4..9 equal
\* to zero, and its coefficients with mode index 0..3 are left as they
\* were, also when ndofel[e] = 1; an element with ndofel[e] = 10 is left
\* as it was.
C7_P2ModesZero ==
  pc = "adapted" =>
    \A el \in Elems :
      IF ndofel[el] < 10
      THEN /\ \A i \in DOMAIN unk[el] :
                unk[el][i] = IF i % rdof >= 4 THEN Zero ELSE unk0[el][i]
           /\ \A i \in DOMAIN prim[el] :
                prim[el][i] = IF i % rdof >= 4 THEN Zero ELSE prim0[el][i]
      ELSE unk[el] = unk0[el] /\ prim[el] = prim0[el]

C7_Witness ==
  /\ pc = "adapted"
  /\ \E el \in Elems :
       /\ ndofel[el] = 1
       /\ unk0[el][4] = One /\ unk[el][4] = Zero /\ unk[el][1] = One
       /\ prim0[el][9] = One /\ prim[el][9] = Zero /\ prim[el][3] = One

----------------------------------------------------------------------------
(* The right-hand side, MultiMat::rhs (PDE/MultiMat/DGMultiMat.hpp), with  *)
(* the integrators it calls.  A contribution w * fl[c] * B[i] is counted,  *)
(* not evaluated: R(e, mark+i) holds the number of contributions added to  *)
(* it, and rlog[e] lists, in the order of accumulation, the Gauss points   *)
(* that added to the row of element e.                                     *)

NBFac   == 4      \* boundary faces of the mesh
NSide   == 2      \* side sets of the mesh
NBcKind == 2      \* boundary-condition kinds with a configuration

nbfac  == NBFac
nipfac == nelem - 1
nfaces == nbfac + nipfac

\* esuf[2*f], esuf[2*f+1]: the elements left and right of face f; boundary
\* faces come first and have -1 to their right
esuf ==
  [j \in 0..(2 * nfaces - 1) |->
     IF (j \div 2) < nbfac
     THEN IF j % 2 = 0 THEN ((j \div 2) \div NSide) % nelem ELSE -1
     ELSE IF j % 2 = 0 THEN (j \div 2) - nbfac ELSE (j \div 2) - nbfac + 1]

\* bface: side-set id -> the list of its boundary faces
bface ==
  [id \in 1..NSide |->
     [j \in 1..((nbfac - id + NSide) \div NSide) |-> (id - 1) + (j - 1) * NSide]]

\* side-set ids as they are written in the configuration, and std::stoi
Digits == <<"1", "2", "3", "4", "5", "6", "7", "8", "9">>

stoi(str) == CHOOSE n \in DOMAIN Digits : Digits[n] = str

\* the side-set lists a boundary-condition kind can be configured with
BcLists ==
  { <<>>, <<Digits[1]>>, <<Digits[1], Digits[2]>>, <<Digits[2], Digits[1]>>,
    <<Digits[1], Digits[1]>>, <<Digits[NSide + 1]>> }

\* minimum Gauss rules of a face and of a volume
NGfa(nd) == CASE nd = 1 -> 1 [] nd = 4 -> 3 [] nd = 10 -> 6

NGvol(nd) == CASE nd = 1 -> 1 [] nd = 4 -> 4 [] nd = 10 -> 11

\* for igp = 0 .. ng-1
GaussPointsReversed(kind, id, ng) ==
  [g \in 1..ng |-> [kind |-> kind, id |-> id, igp |-> ng - g]]

GaussPoints(kind, id, ng) ==
  [g \in 1..ng |-> [kind |-> kind, id |-> id, igp |-> g - 1]]

\* n contributions to the modes idofs of every component of a row
Accumulate(Rrow, idofs, n) ==
  [i \in DOMAIN Rrow |-> IF (i % ndof) \in idofs THEN Rrow[i] + n ELSE Rrow[i]]

update_rhs_bc_all(Rrow, ndof_l, n) == Accumulate(Rrow, 0..(ndof - 1), n)

update_rhs_bc(Rrow, ndof_l, n) ==
  Accumulate(Rrow,
             {0} \cup (IF ndof_l > 1 THEN 1..3 ELSE {})
                 \cup (IF ndof_l > 4 THEN 4..9 ELSE {}), n)

\* internal faces: modes [0, ndofel[side])
update_rhs_fa(Rrow, ndof_l, n) == Accumulate(Rrow, 0..(ndof_l - 1), n)

\* source term: projected onto the first ndofel[e] basis functions
update_rhs_src(Rrow, ndof_el, n) == Accumulate(Rrow, 0..(ndof_el - 1), n)

\* flux divergence: the gradient of the first basis function is zero
update_rhs_vol(Rrow, ndof_el, n) == Accumulate(Rrow, 1..(ndof_el - 1), n)

update_rhs_ncn(Rrow, ndof_el, n) ==
  Accumulate(Rrow, {0} \cup (IF ndof_el > 1 THEN 1..3 ELSE {}), n)

update_rhs_pre(Rrow, ndof_el, n) ==
  Accumulate(Rrow, {0} \cup (IF ndof_el > 1 THEN 1..3 ELSE {}), n)

\* the indices written with as many basis functions as B_l holds
RderivWritesBasis(ndof_l) ==
  (0..(3 * nmat - 1)) \cup
  {3 * nmat + idof : idof \in 0..((IF rdof > ndof THEN rdof ELSE ndof_l) - 1)}

\* the indices 3*k+idir and 3*nmat+idof, idof < ndof_l, of riemannDeriv
RderivWrites(ndof_l) ==
  (0..(3 * nmat - 1)) \cup {3 * nmat + idof : idof \in 0..(ndof_l - 1)}

\* riemannDeriv[3*k+idir][el] and riemannDeriv[3*nmat+idof][el], idof < ndof_l;
\* a write past the end of the vector shows as an index outside
\* 0..3*nmat+ndof-1
update_rderiv(rd, el, ndof_l, n) ==
  [j \in DOMAIN rd \cup RderivWrites(ndof_l) |->
     IF j \in RderivWrites(ndof_l)
     THEN [x \in Elems |->
             IF x = el
             THEN NAdd(IF j \in DOMAIN rd THEN rd[j][x] ELSE Zero, Rat(n, 1))
             ELSE IF j \in DOMAIN rd THEN rd[j][x] ELSE Zero]
     ELSE rd[j]]

\* the indices nonConservativeInt and update_rhs_ncn read: 3*k+idir, 3*nmat
RderivReads == 0..(3 * nmat)

\* geoElem(e, 0), the volume of an element
geoElemVol == Rat(2, 1)

StaleR == 1

InitRhs ==
  /\ \E d \in {<<1, 4>>, <<4, 4>>, <<10, 10>>} : ndof = d[1] /\ rdof = d[2]
  /\ \E y \in 0..(Len(Orders) - 1) :
       ndofel = [el \in Elems |->
                   IF Orders[1 + ((y + el) % Len(Orders))] <= ndof
                   THEN Orders[1 + ((y + el) % Len(Orders))] ELSE ndof]
  /\ limiter = "vertexbasedp1" /\ intsharp = 0
  /\ accuracy_test = FALSE /\ shock_detection = FALSE
  /\ prelax \in {0, 1}
  /\ m_bc \in [1..NBcKind -> BcLists]
  /\ build = "Release"
  /\ pc = "rhs" /\ e = 0 /\ what = ""
  /\ R = [el \in Elems |-> [i \in 0..(ncomp * ndof - 1) |-> StaleR]]
  /\ riemannDeriv = <<>>
  /\ rlog = [el \in Elems |-> <<>>]
  /\ ibc = 0 /\ iss = 0 /\ ifc = 0
  /\ IdleRows /\ IdleClean /\ IdleFields /\ IdleLim /\ IdleFlux /\ IdleCall

notRhs == <<cfgVars, what, rowVars, cleanVars, fieldVars, limVars, fluxVars,
           callVars>>

\* R.fill(0.0) and the allocation of riemannDeriv
rhs ==
  /\ pc = "rhs"
  /\ R' = [el \in Elems |-> [i \in DOMAIN R[el] |-> 0]]
  /\ riemannDeriv' = [j \in 0..(3 * nmat + ndof - 1) |-> [el \in Elems |-> Zero]]
  /\ rlog' = [el \in Elems |-> <<>>]
  /\ ifc' = nbfac
  /\ pc' = "surf"
  /\ UNCHANGED <<e, ibc, iss, notRhs>>

\* one internal face
surfInt ==
  /\ pc = "surf" /\ ifc < nfaces
  /\ \E el \in {esuf[2 * ifc]}, er \in {esuf[2 * ifc + 1]} :
     \E ng \in {IF NGfa(ndofel[el]) < NGfa(ndofel[er])
                THEN NGfa(ndofel[er]) ELSE NGfa(ndofel[el])} :
       /\ R' = [R EXCEPT ![el] = update_rhs_fa(@, ndofel[el], ng),
                         ![er] = update_rhs_fa(@, ndofel[er], ng)]
       /\ riemannDeriv' =
            update_rderiv(update_rderiv(riemannDeriv, el, ndofel[el], ng),
                          er, ndofel[er], ng)
       /\ rlog' = [rlog EXCEPT ![el] = @ \o GaussPoints("face", ifc, ng),
                               ![er] = @ \o GaussPoints("face", ifc, ng)]
  /\ ifc' = ifc + 1
  /\ UNCHANGED <<pc, e, ibc, iss, notRhs>>

surfIntDone ==
  /\ pc = "surf" /\ ifc = nfaces
  /\ pc' = "src" /\ e' = 0
  /\ UNCHANGED <<R, riemannDeriv, rlog, ibc, iss, ifc, notRhs>>

\* the source term of one element
srcInt ==
  /\ pc = "src" /\ e < nelem
  /\ R' = [R EXCEPT ![e] = update_rhs_src(@, ndofel[e], NGvol(ndofel[e]))]
  /\ rlog' = [rlog EXCEPT ![e] = @ \o GaussPoints("src", e, NGvol(ndofel[e]))]
  /\ e' = e + 1
  /\ UNCHANGED <<pc, riemannDeriv, ibc, iss, ifc, notRhs>>

\* if (ndof > 1) volInt; the loop over m_bc starts otherwise
srcIntDone ==
  /\ pc = "src" /\ e = nelem
  /\ pc' = IF ndof > 1 THEN "vol" ELSE "bnd"
  /\ e' = 0 /\ ibc' = 1 /\ iss' = 1 /\ ifc' = 1
  /\ UNCHANGED <<R, riemannDeriv, rlog, notRhs>>

\* the flux divergence of one element
volInt ==
  /\ pc = "vol" /\ e < nelem
  /\ IF ndofel[e] > 1
     THEN /\ R' = [R EXCEPT ![e] = update_rhs_vol(@, ndofel[e], NGvol(ndofel[e]))]
          /\ rlog' = [rlog EXCEPT ![e] = @ \o GaussPoints("vol", e, NGvol(ndofel[e]))]
     ELSE UNCHANGED <<R, rlog>>
  /\ e' = e + 1
  /\ UNCHANGED <<pc, riemannDeriv, ibc, iss, ifc, notRhs>>

volIntDone ==
  /\ pc = "vol" /\ e = nelem
  /\ pc' = "bnd" /\ e' = 0
  /\ UNCHANGED <<R, riemannDeriv, rlog, ibc, iss, ifc, notRhs>>

\* bface.find( std::stoi(s) ) != end(bface)
SideSetFound(str) == stoi(str) \in DOMAIN bface

\* one boundary face of side set m_bc[ibc][iss]
bndSurfInt ==
  /\ pc = "bnd" /\ ibc <= Len(m_bc) /\ iss <= Len(m_bc[ibc])
  /\ SideSetFound(m_bc[ibc][iss])
  /\ ifc <= Len(bface[stoi(m_bc[ibc][iss])])
  /\ \E f0 \in {bface[stoi(m_bc[ibc][iss])][ifc]} :
     \E el \in {esuf[2 * f0]} :
     \E ng \in {NGfa(ndofel[el])} :
       /\ esuf[2 * f0 + 1] = -1
       /\ R' = [R EXCEPT ![el] = update_rhs_bc(@, ndofel[el], ng)]
       /\ riemannDeriv' = update_rderiv(riemannDeriv, el, ndofel[el], ng)
       /\ rlog' = [rlog EXCEPT ![el] = @ \o GaussPoints("bface", f0, ng)]
  /\ ifc' = ifc + 1
  /\ UNCHANGED <<pc, e, ibc, iss, notRhs>>

\* the side set is not in bface, or its faces are done
bndSurfIntNextSet ==
  /\ pc = "bnd" /\ ibc <= Len(m_bc) /\ iss <= Len(m_bc[ibc])
  /\ \/ ~ SideSetFound(m_bc[ibc][iss])
     \/ /\ SideSetFound(m_bc[ibc][iss])
        /\ ifc > Len(bface[stoi(m_bc[ibc][iss])])
  /\ iss' = iss + 1 /\ ifc' = 1
  /\ UNCHANGED <<pc, e, R, riemannDeriv, rlog, ibc, notRhs>>

\* for (const auto& b : m_bc)
bndSurfIntNextBC ==
  /\ pc = "bnd" /\ ibc <= Len(m_bc) /\ iss > Len(m_bc[ibc])
  /\ ibc' = ibc + 1 /\ iss' = 1 /\ ifc' = 1
  /\ UNCHANGED <<pc, e, R, riemannDeriv, rlog, notRhs>>

\* riemannDeriv[k][e] /= geoElem(e, 0)
bndSurfIntDone ==
  /\ pc = "bnd" /\ ibc > Len(m_bc)
  /\ riemannDeriv' = [j \in DOMAIN riemannDeriv |->
                        [el \in Elems |-> NDiv(riemannDeriv[j][el], geoElemVol)]]
  /\ pc' = "ncn" /\ e' = 0
  /\ UNCHANGED <<R, rlog, ibc, iss, ifc, notRhs>>

\* the non-conservative terms of one element
nonConservativeInt ==
  /\ pc = "ncn" /\ e < nelem
  /\ R' = [R EXCEPT ![e] = update_rhs_ncn(@, ndofel[e], NGvol(ndofel[e]))]
  /\ rlog' = [rlog EXCEPT ![e] = @ \o GaussPoints("ncn", e, NGvol(ndofel[e]))]
  /\ e' = e + 1
  /\ UNCHANGED <<pc, riemannDeriv, ibc, iss, ifc, notRhs>>

\* if (prelax) pressureRelaxationInt
nonConservativeIntDone ==
  /\ pc = "ncn" /\ e = nelem
  /\ pc' = IF prelax # 0 THEN "pre" ELSE "rhs_done"
  /\ e' = 0
  /\ UNCHANGED <<R, riemannDeriv, rlog, ibc, iss, ifc, notRhs>>

\* the pressure relaxation of one element
pressureRelaxationInt ==
  /\ pc = "pre" /\ e < nelem
  /\ R' = [R EXCEPT ![e] = update_rhs_pre(@, ndofel[e], NGvol(ndofel[e]))]
  /\ rlog' = [rlog EXCEPT ![e] = @ \o GaussPoints("pre", e, NGvol(ndofel[e]))]
  /\ e' = e + 1
  /\ UNCHANGED <<pc, riemannDeriv, ibc, iss, ifc, notRhs>>

pressureRelaxationIntDone ==
  /\ pc = "pre" /\ e = nelem
  /\ pc' = "rhs_done"
  /\ UNCHANGED <<e, R, riemannDeriv, rlog, ibc, iss, ifc, notRhs>>

NextRhs ==
  \/ rhs
  \/ surfInt \/ surfIntDone
  \/ srcInt \/ srcIntDone
  \/ volInt \/ volIntDone
  \/ bndSurfInt \/ bndSurfIntNextSet \/ bndSurfIntNextBC \/ bndSurfIntDone
  \/ nonConservativeInt \/ nonConservativeIntDone
  \/ pressureRelaxationInt \/ pressureRelaxationIntDone

SpecRhs == InitRhs /\ [][NextRhs]_vars

\* C6: from the fill of R on, in every element the entries of R with mode
\* index >= ndofel[e] are zero for every component: no integrator writes
\* them.
C6_HighModesZero ==
  pc # "rhs" =>
    \A el \in Elems : \A i \in DOMAIN R[el] :
      (i % ndof) >= ndofel[el] => R[el][i] = 0

C6_Witness ==
  /\ pc = "rhs_done" /\ ndof = 10 /\ prelax = 1
  /\ \E el \in Elems :
       /\ ndofel[el] = 4
       /\ \E j \in DOMAIN rlog[el] : rlog[el][j].kind = "bface"
       /\ \E j \in DOMAIN rlog[el] : rlog[el][j].kind = "face"
       /\ \A c \in Comps : R[el][c * ndof + 3] > 0 /\ R[el][c * ndof + 4] = 0
  /\ \E el \in Elems : ndofel[el] = 1 /\ R[el][0] > 0 /\ R[el][1] = 0

\* the number of times boundary face f0 was integrated
Visits(f0) ==
  Cardinality({j \in DOMAIN rlog[esuf[2 * f0]] :
                 /\ rlog[esuf[2 * f0]][j].kind = "bface"
                 /\ rlog[esuf[2 * f0]][j].id = f0
                 /\ rlog[esuf[2 * f0]][j].igp = 0})

RECURSIVE Flatten(_)
Flatten(ss) == IF ss = <<>> THEN <<>> ELSE Head(ss) \o Flatten(Tail(ss))

\* the side sets and the boundary faces in the order of the configuration
WalkSets == Flatten(m_bc)

WalkFaces ==
  Flatten([j \in 1..Len(WalkSets) |->
             IF SideSetFound(WalkSets[j]) THEN bface[stoi(WalkSets[j])] ELSE <<>>])

Configured(f0) == \E j \in DOMAIN WalkFaces : WalkFaces[j] = f0

\* C8: after one RHS evaluation every boundary face of a configured side
\* set has contributed exactly once and no boundary face has been
\* integrated twice, whatever side-set ids the configuration lists.
C8_EachBoundaryFaceOnce ==
  pc = "rhs_done" =>
    \A f0 \in 0..(nbfac - 1) :
      /\ Visits(f0) <= 1
      /\ Configured(f0) => Visits(f0) = 1

IsFaceEntry(x) == x.kind \in {"face", "bface"}

IsVolEntry(x) == x.kind \in {"src", "vol", "ncn", "pre"}

\* C9 as stated: in the row of every element all face contributions come,
\* in face-id order, before any volume Gauss-point contribution, and the
\* volume Gauss points of an integral come in quadrature-rule order.
C9_FacesBeforeVolume ==
  pc = "rhs_done" =>
    \A el \in Elems : \A i, j \in DOMAIN rlog[el] :
      i < j =>
        /\ ~ (IsVolEntry(rlog[el][i]) /\ IsFaceEntry(rlog[el][j]))
        /\ (IsFaceEntry(rlog[el][i]) /\ IsFaceEntry(rlog[el][j]))
             => rlog[el][i].id <= rlog[el][j].id
        /\ (IsVolEntry(rlog[el][i]) /\ rlog[el][i].kind = rlog[el][j].kind)
             => rlog[el][i].igp < rlog[el][j].igp

\* the position of an integral in MultiMat::rhs
RhsRank(kind) ==
  CASE kind = "face" -> 0 [] kind = "src" -> 1 [] kind = "vol" -> 2
    [] kind = "bface" -> 3 [] kind = "ncn" -> 4 [] kind = "pre" -> 5

\* the boundary Gauss points of element el in the order of the configuration
ExpectedBnd(el) ==
  Flatten([j \in 1..Len(WalkFaces) |->
             IF esuf[2 * WalkFaces[j]] = el
             THEN [g \in 1..NGfa(ndofel[el]) |->
                     [kind |-> "bface", id |-> WalkFaces[j], igp |-> g - 1]]
             ELSE <<>>])

IsBndEntry(x) == x.kind = "bface"

\* C9 amended: the accumulation into the row of an element follows a fixed
\* order: the internal faces of the element in face-id order, then the
\* source-term Gauss points, then the flux-divergence Gauss points, then
\* the boundary faces of the element in the order in which the
\* configuration lists their side sets, then the Gauss points of the
\* non-conservative terms, then those of the pressure relaxation; the
\* Gauss points of one face or one volume integral come in
\* quadrature-rule order.
C9_FixedOrder ==
  \A el \in Elems :
    /\ \A j \in 1..(Len(rlog[el]) - 1) :
         \/ RhsRank(rlog[el][j].kind) < RhsRank(rlog[el][j + 1].kind)
         \/ /\ rlog[el][j].kind = rlog[el][j + 1].kind
            /\ \/ /\ rlog[el][j].id = rlog[el][j + 1].id
                  /\ rlog[el][j + 1].igp = rlog[el][j].igp + 1
               \/ /\ rlog[el][j + 1].igp = 0
                  /\ \/ rlog[el][j].kind = "bface"
                     \/ rlog[el][j].id < rlog[el][j + 1].id
    /\ \A j \in DOMAIN rlog[el] : j = 1 => rlog[el][j].igp = 0
    /\ pc \in {"ncn", "pre", "rhs_done"}
         => SelectSeq(rlog[el], IsBndEntry) = ExpectedBnd(el)

C9_Witness ==
  /\ pc = "rhs_done" /\ prelax = 1 /\ ndof = 10
  /\ m_bc[1] = <<Digits[2], Digits[1]>>
  /\ \E el \in Elems : \E i, j \in DOMAIN rlog[el] :
       /\ i < j
       /\ rlog[el][i].kind = "vol" /\ rlog[el][j].kind = "bface"
       /\ \E i2 \in DOMAIN rlog[el] :
            /\ i2 > j /\ rlog[el][i2].kind = "bface"
            /\ rlog[el][i2].id < rlog[el][j].id
       /\ rlog[el][1].kind = "face" /\ rlog[el][1].id > rlog[el][j].id

----------------------------------------------------------------------------
(* The Riemann flux of the multi-material system for solids,               *)
(* LaxFriedrichsSolids::flux (PDE/Riemann/LaxFriedrichsSolids.hpp), called *)
(* at one Gauss point of a boundary face of element 0, and the update of   *)
(* the right-hand side that reads its result (update_rhs_bc).  The state   *)
(* vectors u[0], u[1] hold the ncomp conserved quantities followed by the  *)
(* nmat partial pressures and the three velocities.  No material is a      *)
(* solid (solidx[k] = 0).  The tractions and the sound speeds are values   *)
(* of the material blocks and are inputs of the model.                     *)

FluxSizeMsg == "Size of multi-material flux vector incorrect"

\* v.size()
Size(v) == Cardinality(DOMAIN v)

\* fn, the unit normal of the face
FaceNormal == <<One, Zero, Zero>>

TracVals == {Zero, Rat(-1, 1)}
AcVals   == {One, Rat(2, 1)}
VelVals  == {Rat(-1, 1), One}
PmVals   == {One, Rat(2, 1)}

\* the state with volume fractions (a, 1-a, 0, ...), material densities 1,
\* velocity (vx, 0, 0), material total energies 1 and material pressures pm
StateVec(a, vx, pm) ==
  [i \in 0..(ncomp + nprim - 1) |->
     IF i < 2 * nmat
     THEN (IF i % nmat = 0 THEN a ELSE IF i % nmat = 1 THEN NSub(One, a) ELSE Zero)
     ELSE IF i < 2 * nmat + 3
     THEN (IF i = 2 * nmat THEN vx ELSE Zero)
     ELSE IF i < ncomp
     THEN (IF (i - 2 * nmat - 3) = 0 THEN a
           ELSE IF (i - 2 * nmat - 3) = 1 THEN NSub(One, a) ELSE Zero)
     ELSE IF i < ncomp + nmat
     THEN NMul(IF (i - ncomp) = 0 THEN a
               ELSE IF (i - ncomp) = 1 THEN NSub(One, a) ELSE Zero, pm)
     ELSE IF i = ncomp + nmat THEN vx ELSE Zero]

RECURSIVE SumOver(_, _)
\* the sum of F[j] for j = 0 .. n-1
SumOver(F, n) == IF n = 0 THEN Zero ELSE NAdd(SumOver(F, n - 1), F[n - 1])

\* the vector flx before the Assert, for left and right states uu[1], uu[2],
\* tractions asign_l[k], asign_r[k] and mixture sound speeds ac_l, ac_r
RiemannFlux(fnv, uu, asign_l, asign_r, ac_l, ac_r) ==
  LET nc   == Size(uu[1]) - (3 + nmat)
      vel(side, i) == uu[side][nc + velocityIdx(nmat, i)]
      pm(side, j)  == uu[side][nc + pressureIdx(nmat, j)]
      \* both loops over the tractions add asign_l to sign_l
      sign_l == [i \in 0..2 |->
                   NAdd(SumOver([j \in Mats |-> asign_l[j][i]], nmat),
                        SumOver([j \in Mats |-> asign_l[j][i]], nmat))]
      sign_r == [i \in 0..2 |-> Zero]
      vn(side) == NAdd(NAdd(NMul(vel(side, 0), fnv[1]),
                            NMul(vel(side, 1), fnv[2])),
                       NMul(vel(side, 2), fnv[3]))
      vnl == vn(1)
      vnr == vn(2)
      lambda == NAdd(StdMax(NAbs(vnl), NAbs(vnr)), StdMax(ac_l, ac_r))
      vriem == NMul(Rat(1, 2), NAdd(vnl, vnr))
      work(side, asg, j) ==
        SumOver([i \in 0..2 |-> NMul(vel(side, i), asg[j][i])], 3)
      side_flux(side, vnn, asg, sgn) ==
        [c \in 0..(nc - 1) |->
           IF c < 2 * nmat THEN NMul(vnn, uu[side][c])
           ELSE IF c < 2 * nmat + 3
           THEN NSub(NMul(vnn, uu[side][c]), sgn[c - 2 * nmat])
           ELSE NSub(NMul(vnn, uu[side][c]), work(side, asg, c - 2 * nmat - 3))]
      fluxl == side_flux(1, vnl, asign_l, sign_l)
      fluxr == side_flux(2, vnr, asign_r, sign_r)
  IN [c \in 0..(nc + nmat) |->
        IF c < nc
        THEN NMul(Rat(1, 2),
                  NSub(NAdd(fluxl[c], fluxr[c]),
                       NMul(lambda, NSub(uu[2][c], uu[1][c]))))
        ELSE IF c < nc + nmat
        THEN NMul(Rat(1, 2), NAdd(pm(1, c - nc), pm(2, c - nc)))
        ELSE vriem]

InitFlux ==
  /\ rdof = 4 /\ ndof = 1 /\ ndofel = [el \in Elems |-> 1]
  /\ limiter = "vertexbasedp1" /\ intsharp = 0
  /\ accuracy_test = FALSE /\ shock_detection = FALSE
  /\ prelax = 0 /\ m_bc = <<>>
  /\ build \in {"Debug", "Release"}
  /\ pc = "flux" /\ e = 0 /\ what = ""
  /\ \E x \in 1..Len(LimAlphaVals), vl \in VelVals, vr \in VelVals, pl \in PmVals :
       ustate = << StateVec(LimAlphaVals[x], vl, pl),
                   StateVec(LimAlphaVals[1 + (x % Len(LimAlphaVals))], vr, One) >>
  /\ fl = <<>> /\ flux_out = "none"
  /\ R = [el \in Elems |-> [i \in 0..(ncomp * ndof - 1) |-> 0]]
  /\ riemannDeriv = [j \in 0..(3 * nmat + ndof - 1) |-> [el \in Elems |-> Zero]]
  /\ rlog = [el \in Elems |-> <<>>]
  /\ ibc = 0 /\ iss = 0 /\ ifc = 0
  /\ IdleRows /\ IdleClean /\ IdleFields /\ IdleLim /\ IdleCall

notFlux == <<rdof, ndof, ndofel, intsharp, limiter, accuracy_test,
             shock_detection, prelax, m_bc, build, e, ustate,
             rowVars, cleanVars, fieldVars, limVars, ibc, iss, ifc, callVars>>

\* LaxFriedrichsSolids::flux.  rotMat is written while it has no elements:
\* the call either ends there, or goes on with sound speeds computed from
\* whatever was read back.  The Assert on the size is compiled into a Debug
\* build only.
flux ==
  /\ pc = "flux"
  /\ \/ /\ flux_out' = "crashed" /\ fl' = <<>> /\ what' = what
     \/ \E tl \in TracVals, tr \in TracVals, ac_l \in AcVals, ac_r \in AcVals :
        \E flx \in {RiemannFlux(FaceNormal, ustate,
                      [j \in Mats |-> [i \in 0..2 |-> NMul(tl, FaceNormal[i + 1])]],
                      [j \in Mats |-> [i \in 0..2 |-> NMul(tr, FaceNormal[i + 1])]],
                      ac_l, ac_r)} :
          IF build = "Debug" /\ Size(flx) # Size(ustate[1]) + nmat + 1
          THEN flux_out' = "thrown" /\ fl' = <<>> /\ what' = FluxSizeMsg
          ELSE flux_out' = "returned" /\ fl' = flx /\ what' = what
  /\ pc' = "flux_ended"
  /\ UNCHANGED <<R, riemannDeriv, rlog, notFlux>>

\* update_rhs_bc at the Gauss point, with wt = 1 and B_l[0] = 1
update_rhs_bc_gp ==
  /\ pc = "flux_ended" /\ flux_out = "returned"
  /\ R' = [R EXCEPT ![0] = update_rhs_bc(@, ndofel[0], 1)]
  /\ riemannDeriv' =
       IF Size(fl) > ncomp
       THEN [j \in DOMAIN riemannDeriv |->
               IF j < 3 * nmat
               THEN [riemannDeriv[j] EXCEPT ![0] =
                       NAdd(@, NMul(fl[ncomp + (j \div 3)], FaceNormal[1 + (j % 3)]))]
               ELSE IF j - 3 * nmat < ndofel[0]
               THEN [riemannDeriv[j] EXCEPT ![0] = NAdd(@, fl[ncomp + nmat])]
               ELSE riemannDeriv[j]]
       ELSE riemannDeriv
  /\ rlog' = [rlog EXCEPT ![0] = @ \o GaussPoints("bface", 0, 1)]
  /\ pc' = "flux_done"
  /\ UNCHANGED <<what, fl, flux_out, notFlux>>

NextFlux == flux \/ update_rhs_bc_gp

SpecFlux == InitFlux /\ [][NextFlux]_vars

\* C10: a call of the Riemann flux function returns a vector of exactly
\* ncomp + nmat + 1 entries: ncomp numerical fluxes, then the nmat
\* Riemann-advected partial pressures, then the Riemann normal velocity,
\* which the update of the right-hand side reads at ncomp+k and ncomp+nmat.
C10_FluxLayout ==
  pc \in {"flux_ended", "flux_done"} =>
    /\ flux_out = "returned"
    /\ Size(fl) = ncomp + nmat + 1
    /\ \A j \in Mats :
         fl[ncomp + j] = NMul(Rat(1, 2), NAdd(ustate[1][ncomp + pressureIdx(nmat, j)],
                                              ustate[2][ncomp + pressureIdx(nmat, j)]))
    /\ fl[ncomp + nmat] = NMul(Rat(1, 2), NAdd(ustate[1][ncomp + velocityIdx(nmat, 0)],
                                               ustate[2][ncomp + velocityIdx(nmat, 0)]))

\* a Debug build never gets a flux vector back
C10_DebugNeverReturns ==
  (build = "Debug" /\ pc \in {"flux_ended", "flux_done"}) => flux_out # "returned"

\* a vector that is returned has the layout, and the update reads it there
C10_ReturnedLayout ==
  flux_out = "returned" =>
    /\ Size(fl) = ncomp + nmat + 1
    /\ \A j \in Mats :
         fl[ncomp + j] = NMul(Rat(1, 2), NAdd(ustate[1][ncomp + pressureIdx(nmat, j)],
                                              ustate[2][ncomp + pressureIdx(nmat, j)]))
    /\ fl[ncomp + nmat] = NMul(Rat(1, 2), NAdd(ustate[1][ncomp + velocityIdx(nmat, 0)],
                                               ustate[2][ncomp + velocityIdx(nmat, 0)]))
    /\ pc = "flux_done" =>
         /\ \A j \in Mats : riemannDeriv[3 * j][0] = fl[ncomp + j]
         /\ riemannDeriv[3 * nmat][0] = fl[ncomp + nmat]

----------------------------------------------------------------------------
(* tk::eval_state (PDE/Integrate/Basis.cpp): the state of element e at a   *)
(* point with basis function values B.  Uf is the field U: Uf[el] is the   *)
(* row of the stored element el, Uf[el][i] = U(el, i, offset).  A read of  *)
(* U outside its stored elements is caught by the Assert of the accessor   *)
(* in a Debug build; in a Release build it is a read outside the array,    *)
(* which ends the call or yields whatever is in memory there.              *)

OutOfBoundsMsg == "Out-of-bounds access"

\* what a read outside the array can yield
GarbageVals == {Zero, NaN}

\* U.empty()
FieldsEmpty(Uf) == Uf = <<>>

\* U(el, i, offset) is a stored entry
Stored(Uf, el, i) == el \in DOMAIN Uf /\ i \in DOMAIN Uf[el]

\* U(el, i, offset), g for an entry that is not stored
At(Uf, el, i, g) == IF Stored(Uf, el, i) THEN Uf[el][i] ELSE g

\* the indices of row e read for component c
EvalReads(c, nd, ndof_el) ==
  {c * nd} \cup (IF ndof_el > 1 THEN (c * nd + 1)..(c * nd + 3) ELSE {})
           \cup (IF ndof_el > 4 THEN (c * nd + 4)..(c * nd + 9) ELSE {})

\* all reads of the call are reads of stored entries
EvalInBounds(a) ==
  \A c \in 0..(a.ncomp - 1) : \A i \in EvalReads(c, a.ndof, a.ndof_el) :
    Stored(a.U, a.e, i)

\* the vector state
EvalStateVec(a, g) ==
  [c \in 0..(a.ncomp - 1) |->
     NAdd(NAdd(At(a.U, a.e, c * a.ndof, g),
               IF a.ndof_el > 1
               THEN SumOver([i \in 0..2 |->
                      NMul(At(a.U, a.e, c * a.ndof + 1 + i, g), a.B[1 + i])], 3)
               ELSE Zero),
          IF a.ndof_el > 4
          THEN SumOver([i \in 0..5 |->
                 NMul(At(a.U, a.e, c * a.ndof + 4 + i, g), a.B[4 + i])], 6)
          ELSE Zero)]

\* number of stored elements, of the element asked for, of components
MaxUnk  == 2
MaxComp == 2

\* a field of nunk elements with nc components of nd dofs
EvalField(nunk, nc, nd) ==
  [el \in 0..(nunk - 1) |-> [i \in 0..(nc * nd - 1) |-> Rat(el + 1, 1)]]

InitEval ==
  /\ rdof = 4 /\ ndof \in {1, 4} /\ ndofel = [el \in Elems |-> ndof]
  /\ limiter = "vertexbasedp1" /\ intsharp = 0
  /\ accuracy_test = FALSE /\ shock_detection = FALSE
  /\ prelax = 0 /\ m_bc = <<>>
  /\ build \in {"Debug", "Release"}
  /\ pc = "eval_state" /\ e = 0 /\ what = ""
  /\ \E nc \in 0..MaxComp, nunk \in 0..MaxUnk, el \in 0..MaxUnk,
        nde \in {1, 4} :
       /\ nde <= ndof
       /\ args = [ncomp |-> nc, ndof |-> ndof, ndof_el |-> nde, e |-> el,
                  U |-> EvalField(nunk, IF nc = 0 THEN 1 ELSE nc, ndof),
                  B |-> [i \in 0..(ndof - 1) |-> IF i = 0 THEN One ELSE Rat(1, 2)]]
  /\ result = <<>> /\ outcome = "none"
  /\ IdleRows /\ IdleClean /\ IdleFields /\ IdleLim /\ IdleRhs /\ IdleFlux

notCall == <<cfgVars, e, rowVars, cleanVars, fieldVars, limVars, rhsVars,
             fluxVars, args>>

eval_state ==
  /\ pc = "eval_state"
  /\ IF FieldsEmpty(args.U)
     THEN outcome' = "returned" /\ result' = <<>> /\ what' = what
     ELSE IF EvalInBounds(args)
     THEN /\ outcome' = "returned" /\ what' = what
          /\ result' = EvalStateVec(args, Zero)
     ELSE IF build = "Debug"
     THEN outcome' = "thrown" /\ result' = <<>> /\ what' = OutOfBoundsMsg
     ELSE \/ outcome' = "crashed" /\ result' = <<>> /\ what' = what
          \/ \E g \in GarbageVals :
               /\ outcome' = "returned_oob" /\ what' = what
               /\ result' = EvalStateVec(args, g)
  /\ pc' = "called"
  /\ UNCHANGED notCall

NextEval == eval_state

SpecEval == InitEval /\ [][NextEval]_vars

\* C11: eval_state returns an empty vector when ncomp = 0 or when the
\* element asked for is not stored in U, and it never reads U outside its
\* stored elements.
C11_EmptyWhenMissing ==
  pc = "called" =>
    /\ (args.ncomp = 0 \/ args.e \notin DOMAIN args.U)
         => (outcome = "returned" /\ result = <<>>)
    /\ outcome = "returned"

\* what holds: an empty vector comes back when ncomp = 0 or U is empty
C11_EmptyWhenNoField ==
  (pc = "called" /\ (args.ncomp = 0 \/ args.U = <<>>))
    => (outcome = "returned" /\ result = <<>>)

----------------------------------------------------------------------------
(* interfaceIndicator (PDE/Limiter.cpp) called on the cell averages of one *)
(* element.                                                                *)

loLim == Rat(1, 50000000)
hiLim == NSub(One, loLim)

\* cell-average volume fractions: below, at and inside the band, and above
IndAlphaVals ==
  {Rat(-1, 1), Zero, loLim, Rat(1, 32), Rat(1, 2), Rat(9, 10), One,
   Rat(2, 1)}

InitIndicator ==
  /\ rdof = 4 /\ ndof = 4 /\ ndofel = [el \in Elems |-> ndof]
  /\ limiter = "vertexbasedp1" /\ intsharp = 1
  /\ accuracy_test = FALSE /\ shock_detection = FALSE
  /\ prelax = 0 /\ m_bc = <<>> /\ build = "Release"
  /\ pc = "interfaceIndicator" /\ e = 0 /\ what = ""
  /\ \E al \in [Mats -> IndAlphaVals] : args = [U |-> RowU(al, al)]
  /\ result = <<>> /\ outcome = "none"
  /\ IdleRows /\ IdleClean /\ IdleFields /\ IdleLim /\ IdleRhs /\ IdleFlux

callInterfaceIndicator ==
  /\ pc = "interfaceIndicator"
  /\ result' = interfaceIndicator(args.U)
  /\ outcome' = "returned"
  /\ pc' = "called"
  /\ UNCHANGED <<what, notCall>>

NextIndicator == callInterfaceIndicator

SpecIndicator == InitIndicator /\ [][NextIndicator]_vars

\* the cell-average volume fraction of material j in the call
IndAlpha(j) == args.U[volfracDofIdx(nmat, j, rdof, 0)]

InBand(x) == NLt(loLim, x) /\ NLt(x, hiLim)

\* C12: interfaceIndicator returns true exactly when some material has
\* loLim < alpha_k < hiLim and the largest alpha_k lies in that band too,
\* and it sets matInt[k] = 1 for exactly the materials with
\* loLim < alpha_k < hiLim and 0 for the others.
C12_InterfaceIndicator ==
  pc = "called" =>
    /\ result.intInd =
         (/\ \E j \in Mats : InBand(IndAlpha(j))
          /\ \E j \in Mats : /\ \A i \in Mats : NLe(IndAlpha(i), IndAlpha(j))
                             /\ InBand(IndAlpha(j)))
    /\ \A j \in Mats : result.matInt[j] = IF InBand(IndAlpha(j)) THEN 1 ELSE 0

C12_Witness ==
  /\ pc = "called" /\ result.intInd
  /\ \E i, j \in Mats : /\ IndAlpha(i) = loLim /\ result.matInt[i] = 0
                        /\ IndAlpha(j) = Rat(1, 2) /\ result.matInt[j] = 1

----------------------------------------------------------------------------
(* The limiter coefficients of one element in VertexBasedMultiMat_P1       *)
(* (PDE/Limiter.cpp): the vertex-based coefficients, the bound-preserving  *)
(* and the positivity step, then interface compression or consistent       *)
(* limiting, and the apply loop.  The values the limiter functions find on *)
(* the mesh are inputs: args.vol and args.oth are the vertex-based values  *)
(* of the volume fractions and of the other components, args.bound and     *)
(* args.pos the values of phi_bound, phic_bound and phip_bound.            *)

CoefVals == {Zero, Rat(1, 2), One}

\* the vertex-based coefficients of the conserved and primitive quantities
CoefVb(a) ==
  VertexBasedLimiting(VertexBasedLimiting(Ones(ncomp), VolfracComps, a.vol),
                      Comps \ VolfracComps, a.oth)

CoefVbPrim(a) == VertexBasedLimiting(Ones(nprim), Prims, a.oth)

InitCoef ==
  /\ rdof = 4 /\ ndof = 4 /\ ndofel = [el \in Elems |-> ndof]
  /\ limiter = "vertexbasedp1" /\ intsharp \in {0, 1}
  /\ accuracy_test \in BOOLEAN /\ shock_detection = FALSE
  /\ prelax = 0 /\ m_bc = <<>> /\ build = "Release"
  /\ pc = "coef" /\ e = 0 /\ what = ""
  /\ \E x \in 1..Len(LimAlphaVals),
        fv \in CoefVals, fo \in CoefVals, fb \in CoefVals, fp \in CoefVals :
       args = [U |-> RowU(LimAlpha(x), LimAlpha(x)),
               vol |-> fv, oth |-> fo, bound |-> fb, pos |-> fp]
  /\ result = <<>> /\ outcome = "none"
  /\ IdleRows /\ IdleClean /\ IdleFields /\ IdleLim /\ IdleRhs /\ IdleFlux

\* VertexBasedLimiting, BoundPreservingLimiting, PositivityLimitingMultiMat
P1CoefficientSteps ==
  /\ pc = "coef"
  /\ \E c1 \in {CoefVb(args)}, p1 \in {CoefVbPrim(args)} :
     \E c2 \in {IF ndof > 1 /\ intsharp = 0 /\ nmat > 1
                THEN BoundPreservingLimiting(c1, <<>>, ndof, args.bound).phic_p1
                ELSE c1} :
       IF intsharp = 0
       THEN \E ps \in {PositivityLimitingMultiMat(c2, <<>>, p1, <<>>, rdof,
                                                  args.pos, args.pos)} :
              result' = [phic |-> ps.phic_p1, phip |-> ps.phip_p1]
       ELSE result' = [phic |-> c2, phip |-> p1]
  /\ outcome' = "steps"
  /\ pc' = "coef_steps"
  /\ UNCHANGED <<what, notCall>>

\* compression or consistent limiting, and the apply loops
P1CoefficientApply ==
  /\ pc = "coef_steps"
  /\ \E cc \in {CoupleCoefficients(args.U, args.U, result.phic, <<>>)} :
       result' = [phic |-> result.phic, phip |-> result.phip,
                  applied |-> cc.phic_p1,
                  U |-> ApplyLimiter(cc.U, cc.phic_p1)]
  /\ outcome' = "returned"
  /\ pc' = "coef_applied"
  /\ UNCHANGED <<what, notCall>>

NextCoef == P1CoefficientSteps \/ P1CoefficientApply

SpecCoef == InitCoef /\ [][NextCoef]_vars

\* min(phi_vb, phi_bound, phi_positivity) of component c; a step that does
\* not act on the component, or is not run, counts as 1
MinOfSteps(c) ==
  StdMin(StdMin(CoefVb(args)[c],
                IF c \in VolfracComps /\ intsharp = 0 THEN args.bound ELSE One),
         IF c \notin VolfracComps /\ intsharp = 0 THEN args.pos ELSE One)

\* C13 as stated: the limiter coefficient finally applied to a component is
\* min(phi_vb, phi_bound, phi_positivity).
C13_AppliedIsMin ==
  pc = "coef_applied" => \A c \in Comps : result.applied[c] = MinOfSteps(c)

\* C13 amended: the coefficient that leaves the bound-preserving and the
\* positivity step is min(phi_vb, phi_bound, phi_positivity), so these two
\* steps only lower the vertex-based coefficient; the coefficient finally
\* applied is that minimum for the momentum components, and for a volume
\* fraction, density or energy component it is that minimum, or the common
\* minimum over the volume-fraction coefficients set by the consistent
\* limiting, or 1 set by the interface compression.
C13_StepsOnlyLower ==
  /\ pc \in {"coef_steps", "coef_applied"} =>
       \A c \in Comps : /\ result.phic[c] = MinOfSteps(c)
                        /\ NLe(result.phic[c], CoefVb(args)[c])
  /\ pc = "coef_applied" =>
       \A c \in Comps :
         IF c \in MomentumComps THEN result.applied[c] = MinOfSteps(c)
         ELSE result.applied[c] \in
                {MinOfSteps(c), PhiAlFrom(result.phic, 0, One), One}

C13_Witness ==
  /\ pc = "coef_applied" /\ intsharp = 0 /\ ~accuracy_test
  /\ args.bound = Rat(1, 2) /\ args.vol = One /\ args.oth = One /\ args.pos = Zero
  /\ result.phic[densityIdx(nmat, 0)] = Zero
  /\ result.applied[densityIdx(nmat, 0)] = Rat(1, 2)
  /\ result.applied[momentumIdx(nmat, 0)] = Zero

----------------------------------------------------------------------------
(* The limiter functions (PDE/Limiter.cpp) at one point of one element,    *)
(* for one component: args.avg is the cell average, args.gp the high-order *)
(* value at the node or quadrature point, args.nb the cell average of a    *)
(* neighbour.                                                              *)

\* the limiter function of VertexBasedLimiting at a node, without std::min
VertexBasedPhiUnclamped(uMin, uMax, st, u_avg) ==
  LET uNeg == NSub(st, u_avg)
      uref == StdMax(NAbs(u_avg), Tiny(1))
  IN IF NGt(uNeg, NMul(Rat(1, 1000000), uref))
     THEN NDiv(NSub(uMax, u_avg), uNeg)
     ELSE IF NLt(uNeg, NMul(Rat(-1, 1000000), uref))
     THEN NDiv(NSub(uMin, u_avg), uNeg)
     ELSE One

\* phi_gp of VertexBasedLimiting at a node
VertexBasedPhi(uMin, uMax, st, u_avg) ==
  LET uNeg == NSub(st, u_avg)
      uref == StdMax(NAbs(u_avg), Tiny(1))
  IN IF NGt(uNeg, NMul(Rat(1, 1000000), uref))
     THEN StdMin(One, NDiv(NSub(uMax, u_avg), uNeg))
     ELSE IF NLt(uNeg, NMul(Rat(-1, 1000000), uref))
     THEN StdMin(One, NDiv(NSub(uMin, u_avg), uNeg))
     ELSE One

BoundPreservingLimitingFunction(mn, mx, al_gp, al_avg) ==
  IF NGt(al_gp, mx) THEN NAbs(NDiv(NSub(mx, al_avg), NSub(al_gp, al_avg)))
  ELSE IF NLt(al_gp, mn) THEN NAbs(NDiv(NSub(mn, al_avg), NSub(al_gp, al_avg)))
  ELSE One

PositivityLimiting(mn, u_gp, u_avg) ==
  IF NLt(u_gp, mn) /\ NGt(NAbs(NSub(u_gp, u_avg)), Tiny(10))
  THEN NAbs(NDiv(NSub(mn, u_avg), NSub(u_gp, u_avg)))
  ELSE One

\* min and max of BoundPreservingLimiting, min of PositivityLimitingMultiMat
bp_min  == Tiny(1)
bp_max  == NSub(One, bp_min)
pos_min == Fin(<<0, 1>>, <<10>>)

\* cell averages and point values
PointVals ==
  {Rat(-1, 1), Zero, NMul(Rat(1, 2), Tiny(1)), Rat(1, 2), One, Rat(2, 1),
   NaN, PInf}

InitPhi ==
  /\ rdof = 4 /\ ndof = 4 /\ ndofel = [el \in Elems |-> ndof]
  /\ limiter = "vertexbasedp1" /\ intsharp = 0
  /\ accuracy_test = FALSE /\ shock_detection = FALSE
  /\ prelax = 0 /\ m_bc = <<>> /\ build = "Release"
  /\ pc = "phi" /\ e = 0 /\ what = ""
  /\ \E a \in PointVals, g \in PointVals, n \in PointVals :
       args = [avg |-> a, gp |-> g, nb |-> n]
  /\ result = <<>> /\ outcome = "none"
  /\ IdleRows /\ IdleClean /\ IdleFields /\ IdleLim /\ IdleRhs /\ IdleFlux

\* the limiter functions, and the coefficient vectors built from them
limiterFunctions ==
  /\ pc = "phi"
  /\ \E vb \in {VertexBasedPhi(StdMin(args.avg, args.nb),
                               StdMax(args.avg, args.nb), args.gp, args.avg)},
        bpf \in {BoundPreservingLimitingFunction(bp_min, bp_max,
                                                 args.gp, args.avg)},
        psf \in {PositivityLimiting(pos_min, args.gp, args.avg)} :
     \E c1 \in {VertexBasedLimiting(Ones(ncomp), Comps, vb)},
        p1 \in {VertexBasedLimiting(Ones(nprim), Prims, vb)} :
     \E c2 \in {BoundPreservingLimiting(c1, <<>>, ndof,
                                        StdMin(One, bpf)).phic_p1} :
     \E ps \in {PositivityLimitingMultiMat(c2, <<>>, p1, <<>>, rdof,
                                           StdMin(One, psf), StdMin(One, psf))} :
       result' = [phi_gp |-> vb, phi_bp |-> bpf, phi_pos |-> psf,
                  vb |-> c1, phic |-> ps.phic_p1, phip |-> ps.phip_p1]
  /\ outcome' = "returned"
  /\ pc' = "called"
  /\ UNCHANGED <<what, notCall>>

NextPhi == limiterFunctions

SpecPhi == InitPhi /\ [][NextPhi]_vars

InUnit(x) == NLe(Zero, x) /\ NLe(x, One)

\* C14 as stated: every coefficient computed by the vertex-based, the
\* bound-preserving and the positivity limiter function lies in [0,1], for
\* every input state.
C14_FunctionsInUnit ==
  pc = "called" =>
    /\ InUnit(result.phi_gp) /\ InUnit(result.phi_bp) /\ InUnit(result.phi_pos)
    /\ \A c \in Comps : InUnit(result.phic[c])
    /\ \A c \in Prims : InUnit(result.phip[c])

\* C14 amended: the vertex-based limiter function and every per-component
\* coefficient that VertexBasedLimiting, BoundPreservingLimiting and
\* PositivityLimitingMultiMat leave in phic and phip lie in [0,1] for every
\* input state; the values returned by BoundPreservingLimitingFunction and
\* PositivityLimiting are not negative or are NaN, and can exceed 1 when
\* the cell average itself is beyond the bound.
C14_CoefficientsInUnit ==
  pc = "called" =>
    /\ InUnit(result.phi_gp)
    /\ \A c \in Comps : InUnit(result.vb[c]) /\ InUnit(result.phic[c])
    /\ \A c \in Prims : InUnit(result.phip[c])
    /\ ~ NLt(result.phi_bp, Zero) /\ ~ NLt(result.phi_pos, Zero)

C14_Witness ==
  /\ pc = "called"
  /\ args.avg = Zero /\ args.gp = NMul(Rat(1, 2), Tiny(1)) /\ args.nb = One
  /\ result.phi_bp = Rat(2, 1)
  /\ result.phic[volfracIdx(nmat, 0)] = One

(***************************************************************************)
(* MultiMat::limit, the choice of the limiter (DGMultiMat.hpp 565-612)     *)
(***************************************************************************)

NunkMsg == "Number of unknowns in solution vector and primitive vector at recent time step incorrect"

\* the discretisations of the input deck: (ndof, rdof) of DG(P0), P0P1,
\* DG(P1) and DG(P2)
Schemes == {<<1, 1>>, <<1, 4>>, <<4, 4>>, <<10, 10>>}

\* the if-chain of limit without its final Throw
LimitBranchSilent(lim, rd) ==
  IF lim = "superbeep1" THEN "SuperbeeMultiMat_P1"
  ELSE IF lim = "vertexbasedp1" /\ rd = 4 THEN "VertexBasedMultiMat_P1"
  ELSE IF lim = "vertexbasedp1" /\ rd = 10 THEN "VertexBasedMultiMat_P2"
  ELSE "none"

\* the if-chain of limit: the limiter function called, "Throw" for the
\* final else-if, "none" when the chain falls through
LimitBranch(lim, rd) ==
  IF lim = "superbeep1" THEN "SuperbeeMultiMat_P1"
  ELSE IF lim = "vertexbasedp1" /\ rd = 4 THEN "VertexBasedMultiMat_P1"
  ELSE IF lim = "vertexbasedp1" /\ rd = 10 THEN "VertexBasedMultiMat_P2"
  ELSE IF lim # "nolimiter" THEN "Throw"
  ELSE "none"

InitDispatch ==
  /\ limiter \in LimiterTypes
  /\ \E d \in Schemes : ndof = d[1] /\ rdof = d[2]
  /\ ndofel = [el \in Elems |-> ndof]
  /\ intsharp = 0 /\ accuracy_test = FALSE /\ shock_detection = FALSE
  /\ prelax = 0 /\ m_bc = <<>>
  /\ build \in {"Debug", "Release"}
  /\ pc = "call_limit" /\ e = 0 /\ what = ""
  /\ \E nu \in 1..MaxUnk, np \in 1..MaxUnk :
       args = [U_nunk |-> nu, P_nunk |-> np]
  /\ result = <<>> /\ outcome = "none"
  /\ IdleRows /\ IdleClean /\ IdleFields /\ IdleLim /\ IdleRhs /\ IdleFlux

\* MultiMat::limit up to the call of the limiter function
callLimit ==
  /\ pc = "call_limit"
  /\ IF build = "Debug" /\ args.U_nunk # args.P_nunk
     THEN outcome' = "thrown" /\ what' = NunkMsg /\ result' = <<>>
     ELSE IF LimitBranch(limiter, rdof) = "Throw"
     THEN outcome' = "thrown" /\ what' = LimiterMsg /\ result' = <<>>
     ELSE /\ outcome' = "returned" /\ what' = what
          /\ result' = <<LimitBranch(limiter, rdof)>>
  /\ pc' = "called"
  /\ UNCHANGED notCall

NextDispatch == callLimit

SpecDispatch == InitDispatch /\ [][NextDispatch]_vars

\* C15 as stated: the vertex-based limiter with rdof different from 4, and
\* every limiter kind other than superbee, vertex-based and no-limiter, makes
\* limit fail.
C15_UnsupportedFails ==
  (pc = "called" /\
     ((limiter = "vertexbasedp1" /\ rdof # 4) \/
      limiter \notin {"superbeep1", "vertexbasedp1", "nolimiter"}))
    => outcome = "thrown"

\* C15: limit throws "Limiter type not configured for multimat." when the
\* limiter is vertex-based with rdof neither 4 nor 10 or is of another kind
\* than superbee, vertex-based and no-limiter (unless the Debug assertion on
\* the sizes of U and P failed first); with rdof = 10 the vertex-based
\* limiter runs VertexBasedMultiMat_P2, and only the no-limiter choice
\* returns without calling a limiter function.
C15_UnconfiguredThrows ==
  pc = "called" =>
    /\ ((limiter = "vertexbasedp1" /\ rdof \notin {4, 10}) \/
        limiter \notin {"superbeep1", "vertexbasedp1", "nolimiter"})
         => outcome = "thrown" /\
            (what = LimiterMsg \/
               (build = "Debug" /\ args.U_nunk # args.P_nunk /\ what = NunkMsg))
    /\ (limiter = "vertexbasedp1" /\ rdof = 10 /\ outcome = "returned")
         => result = <<"VertexBasedMultiMat_P2">>
    /\ (outcome = "returned" /\ result = <<"none">>) => limiter = "nolimiter"
    /\ (build = "Debug" /\ args.U_nunk # args.P_nunk)
         => outcome = "thrown" /\ what = NunkMsg

C15_Witness ==
  /\ pc = "called" /\ limiter = "vertexbasedp1" /\ rdof = 1
  /\ outcome = "thrown" /\ what = LimiterMsg

(***************************************************************************)
(* LuaParser::storeInputDeck, the material blocks (LuaParser.cpp 322-498)  *)
(***************************************************************************)

RepeatMsg   == "Repeating material id specified"
JwlRefMsg   == "Either reference density or reference temperature must be specified for JWL equation of state (EOS)."
TotalMsg    == "The total number of materials in all the material blocks is not equal to the number of materials specified 'nmat'."
OneBasedMsg == "Material ids specified in material blocks not one-based. Material ids must begin with one."
GapMsg      == "Material ids specified in material blocks have a gap. Material ids must be contiguous."

MaxBlocks  == 2
MaxId      == 3
MaxDeckMat == 2

\* the id vectors of a material block: one or two ids
IdVecs == {<<a>> : a \in 0..MaxId} \cup
          {<<a, b>> : a \in 0..MaxId, b \in 0..MaxId}

\* a material block: its eos, its ids, and whether rhor_jwl and Tr_jwl are
\* given (the other properties are given with the right sizes)
MatBlocks ==
  {[eos |-> "stiffenedgas", id |-> v, rhor |-> FALSE, Tr |-> FALSE] :
     v \in IdVecs} \cup
  {[eos |-> "jwl", id |-> v, rhor |-> r[1], Tr |-> r[2]] :
     v \in IdVecs, r \in {<<TRUE, FALSE>>, <<FALSE, TRUE>>, <<FALSE, FALSE>>}}

\* the loop over the ids of a block at lines 362-367: the first id already
\* in matidset throws
RECURSIVE InsertIds(_, _, _)
InsertIds(ids, i, set) ==
  IF i > Len(ids) THEN [rep |-> FALSE, set |-> set]
  ELSE IF ids[i] \in set THEN [rep |-> TRUE, set |-> set]
  ELSE InsertIds(ids, i + 1, set \cup {ids[i]})

\* the JWL branch at 446-459: neither rhor_jwl nor Tr_jwl is valid
JwlRefMissing(blk) == blk.eos = "jwl" /\ ~ blk.rhor /\ ~ blk.Tr

\* eosmap[midx] after midx -= 1 at 467-468 is inside the vector of size n;
\* midx is unsigned, so 0 - 1 wraps to the largest value
WriteInBounds(midx, n) == midx >= 1 /\ midx - 1 < n

\* the writes of a block into the index maps, those in bounds
RECURSIVE WriteMap(_, _, _, _, _)
WriteMap(map, ids, i, n, val) ==
  IF i > Len(ids) THEN map
  ELSE WriteMap(IF WriteInBounds(ids[i], n)
                THEN [map EXCEPT ![ids[i] - 1] = val] ELSE map,
                ids, i + 1, n, val)

\* std::set iterates in increasing order
RECURSIVE SortSet(_)
SortSet(S) ==
  IF S = {} THEN <<>>
  ELSE LET mn == CHOOSE x \in S : \A y \in S : x <= y
       IN  <<mn>> \o SortSet(S \ {mn})

\* the checks after the loop, lines 483-498: the message thrown, if any
IdCheck(tmat, n, set) ==
  IF tmat # n THEN TotalMsg
  ELSE IF SortSet(set)[1] # 1 THEN OneBasedMsg
  ELSE IF \E i \in 1..Cardinality(set) : SortSet(set)[i] # i THEN GapMsg
  ELSE ""

InitDeck ==
  /\ rdof = 4 /\ ndof = 4 /\ ndofel = [el \in Elems |-> ndof]
  /\ limiter = "vertexbasedp1" /\ intsharp = 0
  /\ accuracy_test = FALSE /\ shock_detection = FALSE
  /\ prelax = 0 /\ m_bc = <<>> /\ build = "Release"
  /\ pc = "deck_block" /\ e = 0 /\ what = ""
  /\ \E n \in 1..MaxDeckMat, nb \in 1..MaxBlocks :
       \E mat \in [1..nb -> MatBlocks] :
         args = [nmat |-> n, material |-> mat]
  /\ result = [tmat |-> 0, matidset |-> {}, mtypei |-> 0,
               eosidx |-> [i \in 0..(args.nmat - 1) |-> 0], oob |-> FALSE]
  /\ outcome = "none"
  /\ IdleRows /\ IdleClean /\ IdleFields /\ IdleLim /\ IdleRhs /\ IdleFlux

\* one pass of the loop over the material blocks, lines 346-477
deckBlock ==
  /\ pc = "deck_block" /\ e < Len(args.material)
  /\ LET blk == args.material[e + 1]
         ins == InsertIds(blk.id, 1, result.matidset)
         bad == \E i \in 1..Len(blk.id) : ~ WriteInBounds(blk.id[i], args.nmat)
         nxt == [tmat |-> result.tmat + Len(blk.id),
                 matidset |-> ins.set,
                 mtypei |-> result.mtypei + 1,
                 eosidx |-> WriteMap(result.eosidx, blk.id, 1, args.nmat,
                                     result.mtypei),
                 oob |-> result.oob \/ bad]
     IN  IF ins.rep
         THEN /\ pc' = "called" /\ outcome' = "thrown" /\ what' = RepeatMsg
              /\ UNCHANGED <<e, result>>
         ELSE IF JwlRefMissing(blk)
         THEN /\ pc' = "called" /\ outcome' = "thrown" /\ what' = JwlRefMsg
              /\ e' = e
              /\ result' = [result EXCEPT !.tmat = nxt.tmat,
                                          !.matidset = nxt.matidset]
         ELSE \/ /\ pc' = pc /\ e' = e + 1 /\ result' = nxt
                 /\ UNCHANGED <<outcome, what>>
              \/ /\ bad
                 /\ pc' = "called" /\ outcome' = "crashed"
                 /\ result' = [result EXCEPT !.oob = TRUE]
                 /\ UNCHANGED <<e, what>>
  /\ UNCHANGED <<cfgVars, rowVars, cleanVars, fieldVars, limVars, rhsVars,
                 fluxVars, args>>

\* the error checking on the material ids after the loop, lines 479-498
deckCheck ==
  /\ pc = "deck_block" /\ e = Len(args.material)
  /\ pc' = "called"
  /\ \E msg \in {IdCheck(result.tmat, args.nmat, result.matidset)} :
       IF msg # "" THEN outcome' = "thrown" /\ what' = msg
       ELSE outcome' = "returned" /\ what' = what
  /\ UNCHANGED <<e, result>>
  /\ UNCHANGED <<cfgVars, rowVars, cleanVars, fieldVars, limVars, rhsVars,
                 fluxVars, args>>

NextDeck == deckBlock \/ deckCheck

SpecDeck == InitDeck /\ [][NextDeck]_vars

\* all ids of the deck, block after block
RECURSIVE DeckIdSeq(_, _)
DeckIdSeq(mat, i) ==
  IF i > Len(mat) THEN <<>> ELSE mat[i].id \o DeckIdSeq(mat, i + 1)

\* the ids are exactly 1..nmat, each given once
IdsExact ==
  LET ids == DeckIdSeq(args.material, 1)
  IN  /\ Len(ids) = args.nmat
      /\ {ids[i] : i \in 1..Len(ids)} = 1..args.nmat

AnyJwlRefMissing ==
  \E i \in 1..Len(args.material) :
    args.material[i].eos = "jwl" /\ ~ args.material[i].rhor
      /\ ~ args.material[i].Tr

\* C16: input-deck setup ends in an exception whenever the material ids of
\* all blocks are not exactly 1..nmat and whenever a JWL material gives
\* neither a reference density nor a reference temperature.
C16_BadDeckThrows ==
  (pc = "called" /\ (~ IdsExact \/ AnyJwlRefMissing)) => outcome = "thrown"

\* as long as no id is 0 or above nmat the bad decks do end in an exception,
\* and a deck that is stored has ids exactly 1..nmat and complete JWL blocks
C16_InRangeDeckThrows ==
  pc = "called" =>
    /\ (~ result.oob /\ (~ IdsExact \/ AnyJwlRefMissing))
         => outcome = "thrown"
    /\ outcome = "returned" => IdsExact /\ ~ AnyJwlRefMissing
    /\ outcome = "crashed" => ~ IdsExact

(***************************************************************************)
(* ErrChkMPI on the ranks of an MPI run, as exercised by the unit tests    *)
(* Base/ExceptionMPI 3-6 (TestExceptionMPI.cpp 75-139).  The macro of      *)
(* Base/ExceptionMPI.hpp reduces the local error flags of all ranks with   *)
(* a sum and throws on every rank if the sum is not zero.                  *)
(***************************************************************************)

MaxPes == 4

ErrChkTests == {3, 4, 5, 6}

\* the conditions of the tests with peid left at 0 on every rank
TestCondRankZero(t, peid) ==
  IF t = 3 THEN 0 = 1
  ELSE IF t = 4 THEN 0 # 1
  ELSE IF t = 5 THEN 0 = 1
  ELSE 1 = 1

\* the condition a test hands to ErrChkMPI on rank peid
TestCond(t, peid) ==
  IF t = 3 THEN 0 = 1
  ELSE IF t = 4 THEN 0 # 1
  ELSE IF t = 5 THEN (IF peid = 0 THEN 0 = 1 ELSE 1 = 1)
  ELSE (IF peid = 0 THEN 1 = 1 ELSE 0 = 1)

\* test 6 runs ErrChkMPI only on more than one PE
TestSkipped(t, numpes) == t = 6 /\ ~ (numpes > 1)

RECURSIVE SumErr(_, _)
SumErr(errs, n) == IF n = 0 THEN 0 ELSE errs[n - 1] + SumErr(errs, n - 1)

\* MPI_Allreduce( &err, &globalerr, 1, MPI_INT, MPI_SUM, MPI_COMM_WORLD )
Allreduce(errs, n) == SumErr(errs, n)

InitMPI ==
  /\ rdof = 4 /\ ndof = 4 /\ ndofel = [el \in Elems |-> ndof]
  /\ limiter = "vertexbasedp1" /\ intsharp = 0
  /\ accuracy_test = FALSE /\ shock_detection = FALSE
  /\ prelax = 0 /\ m_bc = <<>> /\ build = "Release"
  /\ pc = "errchkmpi" /\ e = 0 /\ what = ""
  /\ \E t \in ErrChkTests, n \in 1..MaxPes : args = [test |-> t, numpes |-> n]
  /\ result = [st  |-> [r \in 0..(args.numpes - 1) |-> "start"],
               err |-> [r \in 0..(args.numpes - 1) |-> 0]]
  /\ outcome = "none"
  /\ IdleRows /\ IdleClean /\ IdleFields /\ IdleLim /\ IdleRhs /\ IdleFlux

notMPI == <<cfgVars, ctlVars, rowVars, cleanVars, fieldVars, limVars, rhsVars,
            fluxVars, args, outcome>>

\* a rank evaluates its condition and enters the reduction
mpiEnter(r) ==
  /\ pc = "errchkmpi" /\ ~ TestSkipped(args.test, args.numpes)
  /\ result.st[r] = "start"
  /\ result' = [st  |-> [result.st EXCEPT ![r] = "reducing"],
                err |-> [result.err EXCEPT ![r] =
                           IF TestCond(args.test, r) THEN 0 ELSE 1]]
  /\ UNCHANGED notMPI

\* the reduction returns on a rank once every rank has entered it; the rank
\* throws if the global error is not zero
mpiLeave(r) ==
  /\ pc = "errchkmpi"
  /\ result.st[r] = "reducing"
  /\ \A q \in 0..(args.numpes - 1) : result.st[q] # "start"
  /\ result' = [result EXCEPT !.st[r] =
                  IF Allreduce(result.err, args.numpes) # 0
                  THEN "thrown" ELSE "passed"]
  /\ UNCHANGED notMPI

\* test 6 in serial: skip( "in serial, needs multiple PEs" )
mpiSkip(r) ==
  /\ pc = "errchkmpi" /\ TestSkipped(args.test, args.numpes)
  /\ result.st[r] = "start"
  /\ result' = [result EXCEPT !.st[r] = "skipped"]
  /\ UNCHANGED notMPI

NextMPI ==
  \E r \in 0..(args.numpes - 1) : mpiEnter(r) \/ mpiLeave(r) \/ mpiSkip(r)

SpecMPI == InitMPI /\ [][NextMPI]_vars

FairSpecMPI ==
  SpecMPI /\ \A r \in 0..(MaxPes - 1) :
               WF_vars(r < args.numpes /\
                         (mpiEnter(r) \/ mpiLeave(r) \/ mpiSkip(r)))

MpiRanks == 0..(args.numpes - 1)

SomeRankFalse == \E r \in MpiRanks : ~ TestCond(args.test, r)

C17_AllRanksLeave ==
  <>(\A r \in MpiRanks : result.st[r] \in {"thrown", "passed", "skipped"})

Mat3(r0, r1, r2) == [i \in 0..2 |-> IF i = 0 THEN r0 ELSE IF i = 1 THEN r1 ELSE r2]
Vec3(x, y, z)    == [i \in 0..2 |-> IF i = 0 THEN x ELSE IF i = 1 THEN y ELSE z]

\* determinant of a 3x3 matrix
Det3(a) ==
  NAdd(NSub(NMul(a[0][0], NSub(NMul(a[1][1], a[2][2]), NMul(a[1][2], a[2][1]))),
            NMul(a[0][1], NSub(NMul(a[1][0], a[2][2]), NMul(a[1][2], a[2][0])))),
       NMul(a[0][2], NSub(NMul(a[1][0], a[2][1]), NMul(a[1][1], a[2][0]))))

\* the matrix a with its column j replaced by b
ReplaceCol(a, j, b) ==
  [i \in 0..2 |-> [l \in 0..2 |-> IF l = j THEN b[i] ELSE a[i][l]]]

\* tk::cramer: the solution of a x = b by Cramer's rule
cramer(a, b) ==
  LET de == Det3(a)
  IN  [j \in 0..2 |-> NDiv(Det3(ReplaceCol(a, j, b)), de)]

\* the least-squares matrices of an element: regular ones, singular ones
\* (no neighbours; all neighbours on a line) and one of determinant 1e-42
LsqMats ==
  { Mat3(Vec3(One, Zero, Zero), Vec3(Zero, One, Zero), Vec3(Zero, Zero, One)),
    Mat3(Vec3(Rat(2, 1), One, Zero), Vec3(One, Rat(2, 1), Zero),
         Vec3(Zero, Zero, One)),
    Mat3(Vec3(Zero, Zero, Zero), Vec3(Zero, Zero, Zero), Vec3(Zero, Zero, Zero)),
    Mat3(Vec3(One, One, Zero), Vec3(One, One, Zero), Vec3(Zero, Zero, Zero)),
    Mat3(Vec3(Tiny(1), Zero, Zero), Vec3(Zero, Tiny(1), Zero),
         Vec3(Zero, Zero, Tiny(1))) }

LsqRhs == { Vec3(Zero, Zero, Zero), Vec3(One, Rat(2, 1), Rat(3, 1)) }

\* the high-order modes of W on entry
LsqPrior == { Zero, One }

MaxLsqElem == 2
MaxLsqComp == 1

\* the body of the loops for element el: modes 1..3 of every component
SolveElem(Wrow, nc, rd, lhs_e, rhs_e) ==
  [i \in DOMAIN Wrow |->
     IF (i \div rd) < nc /\ (i % rd) \in 1..3
     THEN cramer(lhs_e, rhs_e[i \div rd])[(i % rd) - 1]
     ELSE Wrow[i]]

InitLsq ==
  /\ rdof = 4 /\ ndof = 1 /\ ndofel = [el \in Elems |-> ndof]
  /\ limiter = "vertexbasedp1" /\ intsharp = 0
  /\ accuracy_test = FALSE /\ shock_detection = FALSE
  /\ prelax = 0 /\ m_bc = <<>> /\ build = "Release"
  /\ pc = "solveLeastSq_P0P1" /\ e = 0 /\ what = ""
  /\ \E ne \in 1..MaxLsqElem, nc \in 1..MaxLsqComp :
       \E A \in [0..(ne - 1) -> LsqMats], b \in [0..(ne - 1) -> LsqRhs],
          w \in [0..(ne - 1) -> LsqPrior] :
         args = [ncomp |-> nc, rdof |-> rdof, lhs |-> A,
                 rhs |-> [el \in 0..(ne - 1) |-> [c \in 0..(nc - 1) |-> b[el]]],
                 W |-> [el \in 0..(ne - 1) |->
                          [i \in 0..(nc * rdof - 1) |->
                             IF i % rdof = 0 THEN One ELSE w[el]]]]
  /\ result = <<>> /\ outcome = "none"
  /\ IdleRows /\ IdleClean /\ IdleFields /\ IdleLim /\ IdleRhs /\ IdleFlux

\* tk::solveLeastSq_P0P1: W after the loops over elements and components
solveLeastSq_P0P1 ==
  /\ pc = "solveLeastSq_P0P1"
  /\ result' = [el \in DOMAIN args.lhs |->
                  SolveElem(args.W[el], args.ncomp, args.rdof,
                            args.lhs[el], args.rhs[el])]
  /\ outcome' = "returned" /\ pc' = "called"
  /\ UNCHANGED <<what, notCall>>

NextLsq == solveLeastSq_P0P1

SpecLsq == InitLsq /\ [][NextLsq]_vars

\* 1e-30
DetTol == Fin(<<0, 0, 1>>, <<100>>)

\* C18: after the P0P1 least-squares solve, an element whose 3x3 system has
\* a determinant below 1e-30 has its modes 1..3 at zero.
C18_DegenerateLeftZero ==
  pc = "called" =>
    \A el \in DOMAIN args.lhs :
      NLt(Det3(args.lhs[el]), DetTol) =>
        \A i \in DOMAIN result[el] :
          (i % args.rdof) \in 1..3 => NEq(result[el][i], Zero)

\* what the code does: every element is solved, whatever its determinant,
\* and modes 1..3 hold the quotients of Cramer's rule; they are not finite
\* when the determinant is zero and the mean is untouched
C18_AlwaysSolved ==
  pc = "called" =>
    \A el \in DOMAIN args.lhs :
      \A i \in DOMAIN result[el] :
        /\ (i % args.rdof) = 0 => result[el][i] = args.W[el][i]
        /\ ((i % args.rdof) \in 1..3 /\ Sign(Det3(args.lhs[el])) = 0)
             => ~ IsFin(result[el][i])

(***************************************************************************)
(* The shock marker of one element in VertexBasedMultiMat_P1               *)
(* (Limiter.cpp 601-682).  The value evalDiscIndicator_MultiMat finds for  *)
(* the element is the input args.Ind, the value of the vertex-based        *)
(* limiter function is args.vb.                                            *)
(***************************************************************************)

\* pow(10, -5.7) = 1.99526231e-6, to nine digits, as a multiple of 1e-14
threshold == Tiny(199526231)

IndVals == {Zero, Tiny(1), threshold, Tiny(199526232), One, PInf, NaN}

\* a marker that also reports an indicator equal to the threshold
ShockMarkerGe(sd, nde, Ind) ==
  IF sd /\ nde > 1
  THEN (IF NLe(threshold, Ind) THEN 1 ELSE 0)
  ELSE 1

\* shockmarker[e], lines 621-635; sd is the shock_detection flag and nde is
\* ndofel[e]
ShockMarker(sd, nde, Ind) ==
  IF sd /\ nde > 1
  THEN (IF NGt(Ind, threshold) THEN 1 ELSE 0)
  ELSE 1

\* the conserved components handed to VertexBasedLimiting, lines 642-672
LimitedComps(sm, Urow) ==
  IF sm = 1 THEN Comps
  ELSE VolfracComps
       \cup {densityIdx(nmat, j) : j \in MinorMats(Urow)}
       \cup {energyIdx(nmat, j) : j \in MinorMats(Urow)}

\* the primitive components handed to VertexBasedLimiting, lines 649-677
LimitedPrims(sm, Urow) ==
  IF sm = 1 THEN Prims
  ELSE {pressureIdx(nmat, j) : j \in MinorMats(Urow)}

InitShock ==
  /\ rdof = 4 /\ ndof \in {1, 4}
  /\ \E nde \in {1, 4} : nde <= ndof /\ ndofel = [el \in Elems |-> nde]
  /\ limiter = "vertexbasedp1" /\ intsharp = 0
  /\ accuracy_test = FALSE /\ shock_detection \in BOOLEAN
  /\ prelax = 0 /\ m_bc = <<>> /\ build = "Release"
  /\ pc = "shock" /\ e = 0 /\ what = ""
  /\ \E x \in 1..Len(LimAlphaVals), ind \in IndVals, fc \in {Zero, Rat(1, 2)} :
       args = [U |-> RowU(LimAlpha(x), LimAlpha(x)), Ind |-> ind, vb |-> fc]
  /\ result = <<>> /\ outcome = "none"
  /\ IdleRows /\ IdleClean /\ IdleFields /\ IdleLim /\ IdleRhs /\ IdleFlux

\* the shock marker of the element and the vertex-based coefficients of the
\* path it selects
shockPath ==
  /\ pc = "shock"
  /\ \E sm \in {ShockMarker(shock_detection, ndofel[e], args.Ind)} :
       result' = [shockmarker |-> sm,
                  phic |-> IF DofEl(e) > 1
                           THEN VertexBasedLimiting(Ones(ncomp),
                                  LimitedComps(sm, args.U), args.vb)
                           ELSE <<>>,
                  phip |-> IF DofEl(e) > 1
                           THEN VertexBasedLimiting(Ones(nprim),
                                  LimitedPrims(sm, args.U), args.vb)
                           ELSE <<>>]
  /\ outcome' = "returned" /\ pc' = "called"
  /\ UNCHANGED <<what, notCall>>

NextShock == shockPath

SpecShock == InitShock /\ [][NextShock]_vars

\* the components the vertex-based step has limited
ShockLimitedC == {c \in DOMAIN result.phic : result.phic[c] = args.vb}
ShockLimitedP == {c \in DOMAIN result.phip : result.phip[c] = args.vb}

\* the components of the materials whose volume fraction is below 1e-4
MinorComps ==
  {volfracIdx(nmat, j) : j \in MinorMats(args.U)}
    \cup {densityIdx(nmat, j) : j \in MinorMats(args.U)}
    \cup {energyIdx(nmat, j) : j \in MinorMats(args.U)}

\* C19 as stated: the shock marker is 1 if Ind > 10^-5.7 and 0 otherwise;
\* with marker 1 all conserved and primitive components are limited, with
\* marker 0 only components of minor materials.
C19_MarkerIsIndicator ==
  pc = "called" =>
    /\ result.shockmarker = IF NGt(args.Ind, threshold) THEN 1 ELSE 0
    /\ DofEl(e) > 1 =>
         IF result.shockmarker = 1
         THEN ShockLimitedC = Comps /\ ShockLimitedP = Prims
         ELSE ShockLimitedC \subseteq MinorComps

\* C19 amended: with shock detection on and ndofel[e] > 1 the shock marker
\* is 1 if Ind > 10^-5.7 and 0 otherwise (also for a NaN indicator), and it
\* is 1 whatever the indicator in a P0 element or with shock detection off;
\* in an element with more than one dof, marker 1 limits all conserved and
\* primitive components, marker 0 limits the volume fractions of all
\* materials and the density, energy and pressure of the materials whose
\* volume fraction is below 1e-4, and nothing else.
C19_MarkerSelectsPath ==
  pc = "called" =>
    /\ (shock_detection /\ ndofel[e] > 1) =>
         result.shockmarker = IF NGt(args.Ind, threshold) THEN 1 ELSE 0
    /\ ~ (shock_detection /\ ndofel[e] > 1) => result.shockmarker = 1
    /\ DofEl(e) > 1 =>
         IF result.shockmarker = 1
         THEN ShockLimitedC = Comps /\ ShockLimitedP = Prims
         ELSE /\ ShockLimitedC = VolfracComps \cup MinorComps
              /\ ShockLimitedP =
                   {pressureIdx(nmat, j) : j \in MinorMats(args.U)}
    /\ DofEl(e) <= 1 => result.phic = <<>> /\ result.phip = <<>>

\* an indicator exactly at the threshold leaves the marker at 0 and the
\* momentum unlimited
C19_Witness ==
  /\ pc = "called" /\ shock_detection /\ ndofel[e] > 1
  /\ args.Ind = threshold /\ result.shockmarker = 0
  /\ MomentumComps \cap ShockLimitedC = {}
  /\ MinorMats(args.U) # {}

(***************************************************************************)
(* The hierarchical coefficients of one element in VertexBasedCompflow_P2  *)
(* (Limiter.cpp 479-515) and VertexBasedMultiMat_P2 (Limiter.cpp 842-915). *)
(* The values of the limiter functions VertexBasedLimiting and             *)
(* VertexBasedLimiting_P2 are the inputs args.p1 and args.p2.              *)
(***************************************************************************)

\* values of the limiter functions: VertexBasedLimiting_P2 clamps from
\* above only
HierVals == {Rat(-1, 2), Zero, Rat(1, 2), One}

\* a coefficient vector: a for the first volume fraction, b for the other
\* volume fractions, g for the other components
HierVec(a, b, g) ==
  [c \in 0..(ncomp - 1) |->
     IF c = volfracIdx(nmat, 0) THEN a
     ELSE IF c \in VolfracComps THEN b ELSE g]

InitHier ==
  /\ rdof = 10 /\ ndof = 10
  /\ \E nde \in {4, 10} : ndofel = [el \in Elems |-> nde]
  /\ limiter = "vertexbasedp1" /\ intsharp = 0
  /\ accuracy_test = FALSE /\ shock_detection = FALSE
  /\ prelax = 0 /\ m_bc = <<>> /\ build = "Release"
  /\ pc = "hier" /\ e = 0 /\ what = ""
  /\ \E a1 \in HierVals, g1 \in HierVals, a2 \in HierVals, b2 \in HierVals,
        g2 \in HierVals :
       args = [p1 |-> HierVec(a1, One, g1), p2 |-> HierVec(a2, b2, g2)]
  /\ result = <<>> /\ outcome = "none"
  /\ IdleRows /\ IdleClean /\ IdleFields /\ IdleLim /\ IdleRhs /\ IdleFlux

\* the coefficients the two limiters apply to the P1 and to the P2 modes
hierCoefficients ==
  /\ pc = "hier"
  /\ \E c2 \in {IF DofEl(e) > 4 THEN args.p2 ELSE Ones(ncomp)} :
     \E c1 \in {IF DofEl(e) > 4 THEN MaxCoefficients(args.p1, c2)
                ELSE args.p1} :
       result' = [cf_p1 |-> c1, cf_p2 |-> c2,
                  mm_p1 |-> SameCoefficient(c1, VolfracComps,
                                            CommonAlFrom(c1, 0, One)),
                  mm_p2 |-> SameCoefficient(c2, VolfracComps,
                                            CommonAlFrom(c2, 0, One))]
  /\ outcome' = "returned" /\ pc' = "called"
  /\ UNCHANGED <<what, notCall>>

NextHier == hierCoefficients

SpecHier == InitHier /\ [][NextHier]_vars

\* C20: in an element limited with its second-order modes (dof_el > 4),
\* after phi_p1 = max(phi_p1, phi_p2) every component has
\* phi_p2 <= phi_p1 in the coefficients applied by VertexBasedCompflow_P2
\* and, after the volume fractions are given their common minimum, by
\* VertexBasedMultiMat_P2: the second-order modes are never limited less
\* than the first-order modes.
C20_P2NotAboveP1 ==
  (pc = "called" /\ DofEl(e) > 4) =>
    \A c \in Comps :
      /\ NLe(result.cf_p2[c], result.cf_p1[c])
      /\ NLe(result.mm_p2[c], result.mm_p1[c])
      /\ result.cf_p2[c] = args.p2[c]
      /\ NLe(args.p1[c], result.cf_p1[c])

\* the P1 limiter function is below the P2 one for a component, and the
\* component is applied the P2 value on both its P1 and its P2 modes
C20_Witness ==
  /\ pc = "called" /\ DofEl(e) > 4
  /\ \E c \in Comps \ VolfracComps :
       /\ NLt(args.p1[c], args.p2[c])
       /\ result.mm_p1[c] = args.p2[c] /\ result.mm_p2[c] = args.p2[c]

(***************************************************************************)
(* consistentMultiMatLimiting_P1 on one element (Limiter.cpp 1691-1807).   *)
(* args.U is the row of the element, args.phic and args.phic2 are the      *)
(* coefficients phic_p1 and phic_p2 on entry.                              *)
(***************************************************************************)

\* the largest volume fraction of the element: a mixed cell, a cell of
\* almost pure material (1 - 1e-6), a cell at the edge of the band of the
\* consistency step (1 - 1e-4) and a pure cell
ConsAlVals == <<Rat(1, 2), Rat(999999, 1000000), Rat(9999, 10000), One>>

ConsSlopeVals == {Zero, Rat(1, 4)}

\* the row of an element: material 0 has volume fraction v and the others
\* share the rest; densities 2, specific total energies 3, momentum 1;
\* the high-order dofs of the volume fractions are s, all the others 1
ConsRow(v, s) ==
  [i \in 0..(ncomp * rdof - 1) |->
     LET c  == i \div rdof
         al == [j \in Mats |-> IF j = 0 THEN v
                               ELSE NDiv(NSub(One, v), Rat(nmat - 1, 1))]
     IN  IF i % rdof # 0 THEN (IF c \in VolfracComps THEN s ELSE One)
         ELSE IF c \in VolfracComps THEN al[c]
         ELSE IF c \in DensityComps
         THEN NMul(Rat(2, 1), al[c - densityIdx(nmat, 0)])
         ELSE IF c \in EnergyComps
         THEN NMul(Rat(3, 1), al[c - energyIdx(nmat, 0)])
         ELSE One]

\* coefficients on entry: a for the first volume fraction, b for the other
\* volume fractions, g for the other components
ConsPhi(a, b, g) ==
  [c \in 0..(ncomp - 1) |->
     IF c = volfracIdx(nmat, 0) THEN a
     ELSE IF c \in VolfracComps THEN b ELSE g]

InitCons ==
  /\ \E d \in {4, 10} : rdof = d /\ ndof = d
  /\ ndofel = [el \in Elems |-> ndof]
  /\ limiter = "vertexbasedp1" /\ intsharp \in {0, 1}
  /\ accuracy_test = FALSE /\ shock_detection = FALSE
  /\ prelax = 0 /\ m_bc = <<>> /\ build = "Release"
  /\ pc = "consistent" /\ e = 0 /\ what = ""
  /\ \E x \in 1..Len(ConsAlVals), s \in ConsSlopeVals,
        a \in CoefVals, b \in CoefVals, g \in CoefVals :
       args = [U |-> ConsRow(ConsAlVals[x], s),
               phic |-> ConsPhi(a, b, g), phic2 |-> ConsPhi(b, a, g)]
  /\ result = <<>> /\ outcome = "none"
  /\ IdleRows /\ IdleClean /\ IdleFields /\ IdleLim /\ IdleRhs /\ IdleFlux

callConsistent ==
  /\ pc = "consistent"
  /\ result' = consistentMultiMatLimiting_P1(args.U, args.phic, args.phic2)
  /\ outcome' = "returned" /\ pc' = "called"
  /\ UNCHANGED <<what, notCall>>

\* MultiMat::updateInterfaceCells on the row of one element
updateInterfaceCells(Urow) ==
  IF intsharp = 0 \/ ~ interfaceIndicator(Urow).intInd THEN Urow
  ELSE [i \in DOMAIN Urow |->
          IF i % rdof >= 1 /\
             \/ \E j \in Mats :
                  /\ interfaceIndicator(Urow).matInt[j] = 1
                  /\ (i \div rdof) \in {densityIdx(nmat, j), energyIdx(nmat, j)}
             \/ (i \div rdof) \in MomentumComps
          THEN Zero ELSE Urow[i]]

callUpdateInterfaceCells ==
  /\ pc = "consistent"
  /\ result' = [U |-> updateInterfaceCells(args.U)]
  /\ outcome' = "returned" /\ pc' = "updated"
  /\ UNCHANGED <<what, notCall>>

NextCons == callConsistent \/ callUpdateInterfaceCells

SpecCons == InitCons /\ [][NextCons]_vars

\* the interface cells of the consistency step: the largest cell-average
\* volume fraction lies strictly between 1e-4 and 1 - 1e-4
ConsBand ==
  \E j \in Mats :
    /\ \A i \in Mats : NLe(args.U[volfracDofIdx(nmat, i, rdof, 0)],
                           args.U[volfracDofIdx(nmat, j, rdof, 0)])
    /\ NGt(args.U[volfracDofIdx(nmat, j, rdof, 0)], Rat(1, 10000))
    /\ NLt(args.U[volfracDofIdx(nmat, j, rdof, 0)], Rat(9999, 10000))

CoupledComps == VolfracComps \cup DensityComps \cup EnergyComps

\* v is the minimum of the volume-fraction coefficients of phi
IsMinAl(v, phi) ==
  /\ \E j \in Mats : v = phi[volfracIdx(nmat, j)]
  /\ \A j \in Mats : NLe(v, phi[volfracIdx(nmat, j)])

\* C21 as stated: in every cell the interface indicator takes for an
\* interface cell, the consistency step leaves one and the same coefficient
\* on the volume fraction, partial density and partial energy of all
\* materials.
C21_IndicatorCellsCoupled ==
  (pc = "called" /\ interfaceIndicator(args.U).intInd) =>
    \A c, d \in CoupledComps : result.phic_p1[c] = result.phic_p1[d]

\* C21 amended: in every cell whose largest cell-average volume fraction
\* lies strictly between 1e-4 and 1 - 1e-4 the consistency step leaves one
\* and the same coefficient, the minimum of the volume-fraction
\* coefficients, on the volume fraction, partial density and partial energy
\* of all materials (for the P2 coefficients too when rdof > 4), and leaves
\* the momentum coefficients alone.
C21_BandCellsCoupled ==
  (pc = "called" /\ ConsBand) =>
    /\ \A c \in CoupledComps : IsMinAl(result.phic_p1[c], args.phic)
    /\ rdof > 4 => \A c \in CoupledComps : IsMinAl(result.phic_p2[c], args.phic2)
    /\ \A c \in MomentumComps : /\ result.phic_p1[c] = args.phic[c]
                                /\ result.phic_p2[c] = args.phic2[c]

C21_Witness ==
  /\ pc = "called" /\ ConsBand
  /\ args.phic[volfracIdx(nmat, 0)] = One
  /\ args.phic[densityIdx(nmat, 0)] = Zero
  /\ \A c \in CoupledComps : result.phic_p1[c] = Rat(1, 2)

\* the high-order dofs of the partial density and energy of material j
HighDofs(j) ==
  {densityDofIdx(nmat, j, rdof, i) : i \in 1..(rdof - 1)} \cup
  {energyDofIdx(nmat, j, rdof, i) : i \in 1..(rdof - 1)}

\* C22 as stated: in an interface cell, after the consistency step the
\* high-order dofs of every material's partial density and partial energy
\* are zero.
C22_HighDofsZero ==
  (pc = "called" /\ ConsBand) =>
    \A j \in Mats : \A i \in HighDofs(j) : result.U[i] = Zero

\* C22 amended: in an interface cell of the consistency step each
\* high-order dof of a material's partial density (energy) becomes the
\* cell-average density (energy) divided by max(1e-14, alpha_k) times the
\* same dof of the volume fraction, so it is zero exactly where the volume
\* fraction's dof is zero or the average vanishes, and everything else in
\* the row is left alone; outside these cells the row is unchanged.  It is
\* updateInterfaceCells that, with intsharp > 0 and in an interface cell of
\* interfaceIndicator, zeroes the high-order dofs of the partial density and
\* energy of the materials flagged by the indicator and of the momentum.
C22_SlopesFollowVolfrac ==
  /\ (pc = "called" /\ ConsBand) =>
       /\ \A j \in Mats : \A i \in 1..(rdof - 1) :
            /\ result.U[densityDofIdx(nmat, j, rdof, i)] =
                 NMul(NDiv(args.U[densityDofIdx(nmat, j, rdof, 0)],
                           StdMax(Tiny(1), args.U[volfracDofIdx(nmat, j, rdof, 0)])),
                      args.U[volfracDofIdx(nmat, j, rdof, i)])
            /\ result.U[energyDofIdx(nmat, j, rdof, i)] =
                 NMul(NDiv(args.U[energyDofIdx(nmat, j, rdof, 0)],
                           StdMax(Tiny(1), args.U[volfracDofIdx(nmat, j, rdof, 0)])),
                      args.U[volfracDofIdx(nmat, j, rdof, i)])
       /\ \A i \in DOMAIN args.U :
            i \notin UNION {HighDofs(j) : j \in Mats} => result.U[i] = args.U[i]
  /\ (pc = "called" /\ ~ ConsBand) => result.U = args.U
  /\ pc = "updated" =>
       IF intsharp > 0 /\ interfaceIndicator(args.U).intInd
       THEN \A i \in DOMAIN args.U :
              result.U[i] =
                IF i % rdof >= 1 /\
                   \/ (i \div rdof) \in MomentumComps
                   \/ \E j \in Mats : /\ i \in HighDofs(j)
                                      /\ interfaceIndicator(args.U).matInt[j] = 1
                THEN Zero ELSE args.U[i]
       ELSE result.U = args.U

\* an interface cell whose volume-fraction slopes are 1/4: the consistency
\* step leaves the density slope 2 * 1/4 and the energy slope 3 * 1/4
C22_Witness ==
  /\ pc = "called" /\ ConsBand
  /\ args.U[volfracDofIdx(nmat, 0, rdof, 1)] = Rat(1, 4)
  /\ result.U[densityDofIdx(nmat, 0, rdof, 1)] = Rat(1, 2)
  /\ result.U[energyDofIdx(nmat, 0, rdof, 1)] = Rat(3, 4)

\* C23: in a cell that is not an interface cell of the consistency step
\* (so in every cell that is not an interface cell of interfaceIndicator)
\* the step leaves on the volume fraction of every material the minimum
\* over the materials of the volume-fraction coefficients, for the P2
\* coefficients too when rdof > 4, and leaves the coefficients of all other
\* components and the solution as they were.
C23_CommonMinOnly ==
  /\ (pc = "called" /\ ~ ConsBand) =>
       /\ \A c \in VolfracComps : IsMinAl(result.phic_p1[c], args.phic)
       /\ \A c \in Comps \ VolfracComps : result.phic_p1[c] = args.phic[c]
       /\ rdof > 4 =>
            \A c \in VolfracComps : IsMinAl(result.phic_p2[c], args.phic2)
       /\ \A c \in Comps \ VolfracComps : result.phic_p2[c] = args.phic2[c]
       /\ rdof <= 4 => result.phic_p2 = args.phic2
       /\ result.U = args.U
  /\ (pc = "called" /\ ~ interfaceIndicator(args.U).intInd) => ~ ConsBand

\* a pure cell with coefficients 1 and 1/2 on the volume fractions and 0 on
\* the other components
C23_Witness ==
  /\ pc = "called" /\ ~ interfaceIndicator(args.U).intInd
  /\ args.phic[volfracIdx(nmat, 0)] = One
  /\ \A c \in VolfracComps : result.phic_p1[c] = Rat(1, 2)
  /\ \A c \in Comps \ VolfracComps : result.phic_p1[c] = Zero

(***************************************************************************)
(* The coefficients of one element in VertexBasedMultiMat_P1 with and      *)
(* without interface compression (Limiter.cpp 684-713): the actions of the *)
(* coefficient pipeline above on cells of which one has a material below   *)
(* the band of interfaceIndicator.                                         *)
(***************************************************************************)

\* volume fractions before cleanup has renormalised them: material 0 at
\* 1 - 3e-8, the others at 1e-8
TraceAl ==
  [j \in Mats |-> IF j = 0 THEN Rat(99999997, 100000000)
                  ELSE Rat(1, 100000000)]

\* unit-sum volume fractions of three or more materials: 1/2, 1/2 - 1e-8
\* and a last material at 1e-8
UnitTraceAl ==
  [j \in Mats |-> IF j = 0 THEN Rat(1, 2)
                  ELSE IF j = nmat - 1 THEN Rat(1, 100000000)
                  ELSE IF j = 1 THEN Rat(49999999, 100000000)
                  ELSE Zero]

ThincAl ==
  {LimAlpha(2), LimAlpha(3), TraceAl}
    \cup (IF nmat > 2 THEN {UnitTraceAl} ELSE {})

InitThinc ==
  /\ rdof = 4 /\ ndof = 4 /\ ndofel = [el \in Elems |-> ndof]
  /\ limiter = "vertexbasedp1" /\ intsharp \in {0, 1}
  /\ accuracy_test \in BOOLEAN /\ shock_detection = FALSE
  /\ prelax = 0 /\ m_bc = <<>> /\ build = "Release"
  /\ pc = "coef" /\ e = 0 /\ what = ""
  /\ \E al \in ThincAl,
        fv \in CoefVals, fo \in CoefVals, fb \in CoefVals, fp \in CoefVals :
       args = [U |-> RowU(al, al), vol |-> fv, oth |-> fo, bound |-> fb,
               pos |-> fp]
  /\ result = <<>> /\ outcome = "none"
  /\ IdleRows /\ IdleClean /\ IdleFields /\ IdleLim /\ IdleRhs /\ IdleFlux

SpecThinc == InitThinc /\ [][NextCoef]_vars

\* C24 as stated: with interface compression active, in an interface cell
\* the coefficient applied to the volume fraction of every material is 1.
C24_EveryVolfracOne ==
  (pc = "coef_applied" /\ intsharp > 0 /\ interfaceIndicator(args.U).intInd)
    => \A j \in Mats : result.applied[volfracIdx(nmat, j)] = One

\* C24 amended: with interface compression active, in an interface cell the
\* coefficient applied to the volume fraction of every material the
\* indicator flags (2e-8 < alpha_k < 1 - 2e-8) is 1, whatever the
\* vertex-based, bound-preserving and positivity values; an unflagged
\* material keeps its vertex-based coefficient, and so do all other
\* components: the bound-preserving, positivity and consistency steps are
\* not run.
C24_FlaggedVolfracOne ==
  /\ (pc \in {"coef_steps", "coef_applied"} /\ intsharp > 0) =>
       result.phic = CoefVb(args)
  /\ (pc = "coef_applied" /\ intsharp > 0 /\ interfaceIndicator(args.U).intInd)
       => /\ \A j \in Mats :
               result.applied[volfracIdx(nmat, j)] =
                 IF interfaceIndicator(args.U).matInt[j] = 1 THEN One
                 ELSE CoefVb(args)[volfracIdx(nmat, j)]
          /\ \A c \in Comps \ VolfracComps :
               result.applied[c] = CoefVb(args)[c]

C24_Witness ==
  /\ pc = "coef_applied" /\ intsharp > 0 /\ interfaceIndicator(args.U).intInd
  /\ args.vol = Zero /\ args.bound = Zero
  /\ \E j \in Mats : /\ interfaceIndicator(args.U).matInt[j] = 1
                     /\ result.applied[volfracIdx(nmat, j)] = One

----------------------------------------------------------------------------
(* The energy moved by the relaxation step of cleanTraceMultiMat           *)
(* (Limiter.cpp 2455-2551), on the rows of SpecClean between the flux into *)
(* the majority material and the renormalisation.                          *)

\* the sum of the cell-average partial energies
RECURSIVE EnergySumFrom(_, _)
EnergySumFrom(Urow, j) ==
  IF j = nmat THEN Zero
  ELSE NAdd(Urow[energyDofIdx(nmat, j, rdof, 0)], EnergySumFrom(Urow, j + 1))

Alpha0(j) == U0[volfracDofIdx(nmat, j, rdof, 0)]

\* alpha_k < 1e-2 or negative effective pressure, on entry
BelowOrNegative(j) ==
  \/ NLt(Alpha0(j), al_eps)
  \/ NLt(NAdd(NDiv(P0[pressureDofIdx(nmat, j, rdof, 0)], Alpha0(j)),
              pstiff(j)), Zero)

\* the materials the relaxation branch acts on
Relaxed(j) == matExists(Alpha0(j)) /\ BelowOrNegative(j)

\* the energy the relaxation removed from the materials other than km
RECURSIVE RemovedFrom(_, _)
RemovedFrom(j, km) ==
  IF j = nmat THEN Zero
  ELSE NAdd(IF j # km /\ Relaxed(j)
            THEN NSub(U0[energyDofIdx(nmat, j, rdof, 0)],
                      U[energyDofIdx(nmat, j, rdof, 0)])
            ELSE Zero,
            RemovedFrom(j + 1, km))

----------------------------------------------------------------------------
(* The reset of a material with a negative volume fraction in              *)
(* cleanTraceMultiMat (Limiter.cpp 2503-2521), on the rows of SpecClean.   *)

\* the DOFs 1..rdof-1 of component c of row F are zero
HighOrderZero(F, c) == \A i \in 1..(rdof - 1) : F[c * rdof + i] = Zero

\* C26: a material whose cell-average volume fraction is negative on entry
\* is, once the loop over the materials has passed it, at volume fraction
\* 1e-14, partial density 1e-14 * eos_density(p_target, tmax), partial
\* pressure 1e-14 * p_target and an energy 1e-14 * eos_totalenergy, with the
\* high-order DOFs of its volume fraction, density, energy and pressure
\* zero; the high-order DOFs stay zero to the end of the element's cleanup.
C26_NegativeReset ==
  /\ pc = "clean_minor" =>
       \A j \in 0..(k - 1) : NLt(Alpha0(j), Zero) =>
         /\ U[volfracDofIdx(nmat, j, rdof, 0)] = Tiny(1)
         /\ U[densityDofIdx(nmat, j, rdof, 0)] =
              NMul(Tiny(1), eos_density(p_target, tmax))
         /\ U[energyDofIdx(nmat, j, rdof, 0)] \in
              {NMul(Tiny(1),
                    eos_totalenergy(eos_density(p_target, tmax), p_target, te))
                 : te \in TeVals}
         /\ P[pressureDofIdx(nmat, j, rdof, 0)] = NMul(Tiny(1), p_target)
  /\ (\/ pc \in {"clean_minor", "clean_renorm", "clean_next"}
      \/ pc = "thrown" /\ what = EosMsg) =>
       \A j \in Mats :
         (NLt(Alpha0(j), Zero) /\ (pc = "clean_minor" => j < k)) =>
           /\ HighOrderZero(U, volfracIdx(nmat, j))
           /\ HighOrderZero(U, densityIdx(nmat, j))
           /\ HighOrderZero(U, energyIdx(nmat, j))
           /\ HighOrderZero(P, pressureIdx(nmat, j))

C26_Witness ==
  /\ pc = "clean_minor" /\ k = nmat
  /\ \E j \in Mats :
       /\ NLt(Alpha0(j), Zero)
       /\ ~HighOrderZero(U0, volfracIdx(nmat, j))
       /\ HighOrderZero(U, volfracIdx(nmat, j))
       /\ U[volfracDofIdx(nmat, j, rdof, 0)] = Tiny(1)
       /\ IsFin(tmax) /\ Sign(tmax) > 0

----------------------------------------------------------------------------
(* The indices of riemannDeriv used by one evaluation of MultiMat::rhs     *)
(* (DGMultiMat.hpp 741-791, Boundary.cpp 262-275, MultiMatTerms.cpp        *)
(* 158-174 and 253-257), on the runs of SpecRhs.                           *)

\* C27: once allocated with 3*nmat+ndof entries, riemannDeriv is written
\* and read only inside these entries, for every element and every
\* ndofel[e] <= ndof, p-adaptive elements and P0P1 included.
C27_RiemannDerivInBounds ==
  pc # "rhs" =>
    /\ DOMAIN riemannDeriv = 0..(3 * nmat + ndof - 1)
    /\ \A j \in DOMAIN riemannDeriv : DOMAIN riemannDeriv[j] = Elems
    /\ \A el \in Elems : RderivWrites(ndofel[el]) \subseteq DOMAIN riemannDeriv
    /\ RderivReads \subseteq DOMAIN riemannDeriv

C27_Witness ==
  /\ pc = "ncn"
  /\ \E el \in Elems :
       /\ ndofel[el] > 1 /\ ndofel[el] < ndof
       /\ riemannDeriv[3 * nmat + ndofel[el] - 1][el] # Zero
       /\ riemannDeriv[3 * nmat + ndofel[el]][el] = Zero
  /\ \E el \in Elems :
       ndofel[el] = 1 /\ riemannDeriv[3 * nmat][el] # Zero

----------------------------------------------------------------------------
(* MixDirichlet::initialize and MixDirichlet::advance                      *)
(* (DiffEq/Dirichlet/MixDirichlet.hpp).  A particle holds m_ncomp = N-1    *)
(* scalars; the Nth is 1 minus their sum.  args.npar is the number of      *)
(* particles, result.Y[q] the stored scalars of particle q, result.p the   *)
(* loop index of advance, result.adv[q] the number of advances stored for  *)
(* particle q and result.rejAt the particles that had a proposal rejected. *)
(* The coefficients are fixed at b = 1, S = 1/2, k = 1 and dt = 1.  The    *)
(* diffusion term sqrt(d) * dW[i] of a scalar is an input: zero when d is  *)
(* zero, a value of NoiseVals otherwise.  A scalar is held as an integer   *)
(* number of sixteenths: the initial scalars are multiples of 1/4, so the  *)
(* drift (yn - y)/4 and one advance of every particle are exact.           *)

MaxPar   == 2
MixNcomp == 2

\* the arithmetic of the loop index is that of std::size_t; any modulus
\* above the number of particles gives the same runs
IndexModulus == 1073741824

MixComps == 0..(MixNcomp - 1)

\* the real number 1.0 in the unit of the scalars
MixUnit == 16

\* initial scalars -1/4, 0, 1/2, 1 and diffusion terms -1, 1/4
MixVals == {-4, 0, 8, 16}

NoiseVals == {-16, 4}

\* the diffusion terms of one draw of dW
NoiseVecs ==
  {[i \in MixComps |-> 0]} \cup
  {[i \in MixComps |-> IF i = j THEN w ELSE 0] :
     j \in MixComps, w \in NoiseVals}

IcMsg    == "Nth scalar of IC out of bounds"
YnMsg    == "Nth scalar out of bounds"
NegDMsg  == "Negative diffusion term"

\* Yn: compute Nth mass fraction
RECURSIVE YnFrom(_, _, _)
YnFrom(Y, i, yn) ==
  IF i = MixNcomp THEN yn ELSE YnFrom(Y, i + 1, yn - Y[i])

Yn(Y) == YnFrom(Y, 0, MixUnit)

\* y < 0.0 || y > 1.0
OutOfBounds(y) == y < 0 \/ y > MixUnit

\* 0.5*m_b[i]*( m_S[i]*yn - (1.0-m_S[i])*y )*dt for b = 1, S = 1/2, dt = 1
Drift(y, yn) == (yn - y) \div 4

\* advance first m_ncomp (K=N-1) scalars: the loop over i from scalar i on
RECURSIVE AdvanceScalars(_, _, _, _, _)
AdvanceScalars(Yp, yn, noise, i, Yacc) ==
  IF i = MixNcomp THEN [kind |-> "advanced", Y |-> Yacc]
  ELSE LET y == Yp[i]
           \* m_k[i] * y * yn * dt for k = 1, dt = 1, up to a positive factor
           d == y * yn
       IN  IF d < 0 THEN [kind |-> "negative", Y |-> Yacc]
           ELSE LET ynew ==
                      y + Drift(y, yn) + (IF d = 0 THEN 0 ELSE noise[i])
                IN  IF OutOfBounds(ynew)
                    THEN [kind |-> "reject", Y |-> Yacc]
                    ELSE AdvanceScalars(Yp, yn, noise, i + 1,
                                        [Yacc EXCEPT ![i] = ynew])

\* one pass of the loop body of advance for a particle with scalars Yp
Propose(Yp, noise) ==
  IF OutOfBounds(Yn(Yp)) THEN [kind |-> "unbounded", Y |-> Yp]
  ELSE LET a == AdvanceScalars(Yp, Yn(Yp), noise, 0,
                               [i \in MixComps |-> 0])
       IN  IF a.kind = "advanced"
           THEN IF OutOfBounds(Yn(a.Y)) THEN [kind |-> "reject", Y |-> a.Y]
                ELSE [kind |-> "accept", Y |-> a.Y]
           ELSE a

\* the advanced scalars stored whether accepted or not
StoreAlways(particles, q, Y, accept) == [particles EXCEPT ![q] = Y]

\* particles( p, i, m_offset ) = Y[i], in the accept branch only
Store(particles, q, Y, accept) ==
  IF accept THEN [particles EXCEPT ![q] = Y] ELSE particles

\* a decrement that stops at zero
DecrementClamped(x) == IF x = 0 THEN 0 ELSE x - 1

\* --p
Decrement(x) == (x - 1) % IndexModulus

\* ++p
Increment(x) == (x + 1) % IndexModulus

\* the initial condition of particle q
MixIC(t, q) ==
  IF q % 2 = 0 THEN t ELSE [i \in MixComps |-> t[MixNcomp - 1 - i]]

InitMix ==
  /\ rdof = 4 /\ ndof = 4 /\ ndofel = [el \in Elems |-> ndof]
  /\ limiter = "nolimiter" /\ intsharp = 0
  /\ accuracy_test = FALSE /\ shock_detection = FALSE
  /\ prelax = 0 /\ m_bc = <<>> /\ build = "Release"
  /\ pc = "mix_init" /\ e = 0 /\ what = ""
  /\ \E n \in 1..MaxPar, t \in [MixComps -> MixVals] :
       /\ args = [npar |-> n, ic |-> t]
       /\ result = [Y |-> [q \in 0..(n - 1) |-> MixIC(t, q)],
                    p |-> 0,
                    adv |-> [q \in 0..(n - 1) |-> 0],
                    rejAt |-> {}]
  /\ outcome = "none"
  /\ IdleRows /\ IdleClean /\ IdleFields /\ IdleLim /\ IdleRhs /\ IdleFlux

\* initialize: the Nth scalar of every particle is checked
mixInitialize ==
  /\ pc = "mix_init"
  /\ IF \E q \in DOMAIN result.Y : OutOfBounds(Yn(result.Y[q]))
     THEN pc' = "thrown" /\ what' = IcMsg /\ outcome' = "thrown"
     ELSE pc' = "mix_loop" /\ what' = what /\ outcome' = "initialized"
  /\ UNCHANGED <<result, notCall>>

\* a pass of the loop of advance that accepts
mixAccept ==
  /\ pc = "mix_loop" /\ result.p < args.npar
  /\ \E noise \in NoiseVecs :
     \E pr \in {Propose(result.Y[result.p], noise)} :
       /\ pr.kind = "accept"
       /\ result' = [result EXCEPT
                       !.Y = Store(@, result.p, pr.Y, TRUE),
                       !.adv[result.p] = @ + 1,
                       !.p = Increment(result.p)]
  /\ UNCHANGED <<pc, what, outcome, notCall>>

\* a pass that rejects: --p, and the ++p of the loop
mixReject ==
  /\ pc = "mix_loop" /\ result.p < args.npar
  /\ \E noise \in NoiseVecs :
     \E pr \in {Propose(result.Y[result.p], noise)} :
       /\ pr.kind = "reject"
       /\ result' = [result EXCEPT
                       !.Y = Store(@, result.p, pr.Y, FALSE),
                       !.rejAt = @ \cup {result.p},
                       !.p = Increment(Decrement(result.p))]
  /\ UNCHANGED <<pc, what, outcome, notCall>>

\* a pass that throws
mixThrow ==
  /\ pc = "mix_loop" /\ result.p < args.npar
  /\ \E noise \in NoiseVecs :
     \E pr \in {Propose(result.Y[result.p], noise)} :
       /\ pr.kind \in {"unbounded", "negative"}
       /\ what' = IF pr.kind = "unbounded" THEN YnMsg ELSE NegDMsg
  /\ pc' = "thrown" /\ outcome' = "thrown"
  /\ UNCHANGED <<result, notCall>>

\* p < npar fails: advance returns
mixReturn ==
  /\ pc = "mix_loop" /\ ~(result.p < args.npar)
  /\ pc' = "mix_returned" /\ outcome' = "returned"
  /\ UNCHANGED <<what, result, notCall>>

NextMix == mixInitialize \/ mixAccept \/ mixReject \/ mixThrow \/ mixReturn

SpecMix == InitMix /\ [][NextMix]_vars

\* every draw of the random number generator that stays possible is
\* eventually made
FairSpecMix ==
  /\ SpecMix
  /\ WF_vars(mixInitialize) /\ WF_vars(mixAccept) /\ WF_vars(mixThrow)
  /\ WF_vars(mixReturn)

MixPars == 0..(args.npar - 1)

Accepted(q) ==
  /\ result.adv[q] = 1
  /\ \A i \in MixComps : result.Y[q][i] \in 0..MixUnit
  /\ Yn(result.Y[q]) \in 0..MixUnit

\* C28: while advance runs, every particle below the loop index holds one
\* accepted step (all N-1 stored scalars and the Nth in [0,1], advanced
\* once) and every other particle holds its initial scalars; after advance
\* returns this is so for every particle; and a pass that leaves the loop
\* index in place, a rejection, leaves every stored value unchanged.
C28_OnlyAcceptedStored ==
  /\ [](pc \in {"mix_loop", "mix_returned"} =>
          \A q \in MixPars :
            IF q < result.p \/ pc = "mix_returned" THEN Accepted(q)
            ELSE /\ result.adv[q] = 0
                 /\ result.Y[q] = MixIC(args.ic, q))
  /\ [][(pc = "mix_loop" /\ pc' = "mix_loop" /\ result'.p = result.p) =>
          (result'.Y = result.Y /\ result'.adv = result.adv)]_vars

C28_Witness ==
  /\ pc = "mix_returned" /\ args.npar = MaxPar
  /\ result.rejAt = MixPars
  /\ \A q \in MixPars : Accepted(q) /\ result.Y[q] # MixIC(args.ic, q)

\* C30: advance terminates: unless it throws, the loop index reaches the
\* particle count with every particle accepted once, also when particle 0
\* had a proposal rejected.
C30_AdvanceTerminates ==
  <>(\/ pc = "thrown"
     \/ /\ pc = "mix_returned" /\ result.p = args.npar
        /\ \A q \in MixPars : result.adv[q] = 1)

C30_Witness ==
  /\ pc = "mix_returned" /\ result.p = args.npar
  /\ 0 \in result.rejAt
  /\ result.adv[0] = 1

----------------------------------------------------------------------------
(* The indices of the material index maps in LuaParser::storeInputDeck    *)
(* (LuaParser.cpp 326-338 and 462-498), on the runs of SpecDeck.           *)

\* C29: while the deck is stored, eosidx, matidx and solidx, each of nmat
\* entries, are indexed with id-1 for ids in 1..nmat only: no run indexes
\* a map outside its entries, whatever ids the deck holds.
C29_MapsIndexedInRange ==
  pc \in {"deck_block", "called"} => ~result.oob

============================================================================
